---- MODULE Spec2Model ----
(***************************************************************************)
(* A model of graphql_compiler/schema_transformation/utils.py: the query   *)
(* split validator, the AST node renamer, the structural validator, the    *)
(* query-type field matcher and the schema validity check.                 *)
(*                                                                         *)
(* ASTs are records carrying the class name of the node in "kind".  The    *)
(* library function visit(ast, visitor) is modelled as the pre-order walk  *)
(* it performs: a stack of pending enter/leave calls, one call per step,   *)
(* children pushed in the key order of the node's class.  An exception     *)
(* raised by a handler ends the walk and is kept in "outcome".             *)
(***************************************************************************)
EXTENDS Integers, Sequences, FiniteSets, TLC

VARIABLES
    entry,          \* the function of utils.py that was called
    pc,             \* position inside that function
    ast,            \* the document AST given to it (never assigned after Init)
    stack,          \* visit(): pending calls, each [op, node], head first
    last,           \* the last handler call made by visit(): [op, node, result]
    outcome,        \* "running", or how the call ended: NoError or the exception
    validation_errors, \* check_query_is_valid_to_split: what validate() returned
    heap,           \* get_copy_of_node_with_new_name: the objects, by identity
    schema,         \* check_ast_schema_is_valid: what build_ast_schema returned
    query_type,     \* CheckQueryTypeFieldsNameMatchVisitor.query_type
    in_query_type,  \* CheckQueryTypeFieldsNameMatchVisitor.in_query_type
    stages,         \* check_ast_schema_is_valid: the checks started, in order
    args,           \* the arguments of a function that is called on its own
    returned        \* what that function returned

vars ==
    <<entry, pc, ast, stack, last, outcome, validation_errors, heap,
      schema, query_type, in_query_type, stages, args, returned>>

\* The variables of the functions that are called on their own.
call_vars == <<args, returned>>

\* The variables of the schema checks.
schema_vars == <<schema, query_type, in_query_type, stages>>

-----------------------------------------------------------------------------
(* Bounds of the model *)

\* Definitions in a schema document given to the structural validator or to
\* the schema validity check.
MaxDefinitions == 2

\* Type definitions, field definitions and type wrappers in a schema document
\* given to the query-type field matcher.
MaxSchemaNodes == 5

\* Characters in a name given to type_name_is_valid or to
\* check_schema_identifier_is_valid.
MaxNameLen == 3

\* Types in a schema given to the rename conflict detector.
MaxTypes == 3

\* Types and fields in a suppression set.
MaxSuppressed == 3

\* Selections in the outermost scope of a query that may hold a node of
\* another class.
MaxSelections == 2

\* Selections in a list given to try_get_inline_fragment.
MaxFragmentSelections == 3

\* Selection nodes plus directive nodes in a query document.
MaxQueryNodes == 4

-----------------------------------------------------------------------------
(* Values shared by all parts *)

None == [kind |-> "None"]

\* What a handler or a function returns when it does not raise.
NoError == [exc |-> "None", msg |-> ""]

Raise(e, m) == [exc |-> e, msg |-> m]

Idle == [op |-> "none", node |-> None, result |-> NoError]

-----------------------------------------------------------------------------
(* Query AST *)

FilterDirectiveName == "filter"
OutputDirectiveName == "output"
OptionalDirectiveName == "optional"

\* Directive names a query may carry: the supported ones and one that is not.
QueryDirectiveNames ==
    {FilterDirectiveName, OutputDirectiveName, OptionalDirectiveName, "tag"}

DirectiveNode(n) == [kind |-> "DirectiveNode", name |-> n]

SelectionSetNode(sels) == [kind |-> "SelectionSetNode", selections |-> sels]

FieldNode(dirs, ss) ==
    [kind |-> "FieldNode", directives |-> dirs, selection_set |-> ss]

InlineFragmentNode(dirs, ss) ==
    [kind |-> "InlineFragmentNode", directives |-> dirs, selection_set |-> ss]

FragmentSpreadNode(dirs) == [kind |-> "FragmentSpreadNode", directives |-> dirs]

OperationDefinitionNode(dirs, ss) ==
    [kind |-> "OperationDefinitionNode", directives |-> dirs, selection_set |-> ss]

DocumentNode(defs) == [kind |-> "DocumentNode", definitions |-> defs]

RECURSIVE DirectiveSeqs(_)

\* The directive lists of length k.
DirectiveSeqs(k) ==
    IF k = 0 THEN {<<>>}
    ELSE { Append(s, DirectiveNode(n)) : s \in DirectiveSeqs(k - 1),
                                         n \in QueryDirectiveNames }

RECURSIVE CupOver(_, _, _)

\* The set S itself.  Counting it makes TLC keep S sorted, so that a union with
\* S on its left looks elements up by bisection.
Sorted(S) == IF Cardinality(S) >= 0 THEN S ELSE {}

\* F(lo) \cup ... \cup F(hi)
CupOver(F(_), lo, hi) ==
    IF lo > hi THEN {} ELSE Sorted(F(lo)) \cup CupOver(F, lo + 1, hi)

\* levels[k + 1] holds the selection nodes (sel) and the selections lists (seq)
\* made of exactly k selection and directive nodes.  A field is a property field
\* with selection_set None or with an empty selections list, and a vertex field
\* otherwise.
SelectionsOfSize(levels, n) ==
    { FieldNode(ds, None) : ds \in DirectiveSeqs(n - 1) }
    \cup { FieldNode(ds, SelectionSetNode(<<>>)) : ds \in DirectiveSeqs(n - 1) }
    \cup { FragmentSpreadNode(ds) : ds \in DirectiveSeqs(n - 1) }
    \cup CupOver(LAMBDA d : { FieldNode(ds, SelectionSetNode(s))
                              : ds \in DirectiveSeqs(d), s \in levels[n - d].seq },
                 0, n - 2)
    \cup CupOver(LAMBDA d : { InlineFragmentNode(ds, SelectionSetNode(s))
                              : ds \in DirectiveSeqs(d), s \in levels[n - d].seq },
                 0, n - 2)

SelectionSeqsOfSize(levels, sel, n) ==
    CupOver(LAMBDA k : { <<h>> \o t : h \in (IF k = n THEN sel ELSE levels[k + 1].sel),
                                      t \in levels[n - k + 1].seq },
            1, n)

RECURSIVE SelectionLevels(_, _)

SelectionLevels(n, levels) ==
    IF n > MaxQueryNodes THEN levels
    ELSE LET sel == SelectionsOfSize(levels, n) IN
         SelectionLevels(n + 1,
             Append(levels, [sel |-> sel, seq |-> SelectionSeqsOfSize(levels, sel, n)]))

\* The documents of one operation whose directives and selections hold n nodes.
DocumentsOfSize(levels, n) ==
    CupOver(LAMBDA d : { DocumentNode(<<OperationDefinitionNode(ds, SelectionSetNode(s))>>)
                         : ds \in DirectiveSeqs(d), s \in levels[n - d + 1].seq },
            0, 1)

\* Query documents: one operation, at most MaxQueryNodes selection and
\* directive nodes below it.
QueryDocuments ==
    LET levels == SelectionLevels(1, << [sel |-> {}, seq |-> {<<>>}] >>) IN
    CupOver(LAMBDA n : DocumentsOfSize(levels, n), 1, MaxQueryNodes)

-----------------------------------------------------------------------------
(* visit(): children of a node in the key order of its class *)

OptionalNode(n) == IF n = None THEN <<>> ELSE <<n>>

\* The nodes of a list attribute, which is empty when the node was built
\* without it.
OptionalNodes(node, attribute) ==
    IF attribute \in DOMAIN node THEN node[attribute] ELSE <<>>

Children(node) ==
    CASE node.kind = "DocumentNode" -> node.definitions
      [] node.kind = "OperationDefinitionNode" ->
            node.directives \o OptionalNode(node.selection_set)
      [] node.kind = "FieldNode" ->
            node.directives \o OptionalNode(node.selection_set)
      [] node.kind = "InlineFragmentNode" ->
            node.directives \o OptionalNode(node.selection_set)
      [] node.kind = "FragmentSpreadNode" -> node.directives
      [] node.kind = "SelectionSetNode" -> node.selections
      [] node.kind \in { "ObjectTypeDefinitionNode", "InterfaceTypeDefinitionNode",
                         "ObjectTypeExtensionNode" } ->
            <<node.name>> \o node.fields
      [] node.kind = "FieldDefinitionNode" ->
            <<node.name>> \o OptionalNodes(node, "arguments") \o <<node.type>>
      [] node.kind = "EnumTypeDefinitionNode" ->
            <<node.name>> \o OptionalNodes(node, "values")
      [] node.kind = "InputValueDefinitionNode" -> <<node.name, node.type>>
      [] node.kind = "EnumValueDefinitionNode" -> <<node.name>>
      [] node.kind \in { "ListTypeNode", "NonNullTypeNode" } -> <<node.type>>
      [] node.kind \in { "NamedTypeNode",
                         "ScalarTypeDefinitionNode", "UnionTypeDefinitionNode",
                         "InputObjectTypeDefinitionNode",
                         "DirectiveDefinitionNode" } -> <<node.name>>
      [] OTHER -> <<>>

EnterCalls(nodes) == [i \in 1..Len(nodes) |-> [op |-> "enter", node |-> nodes[i]]]

-----------------------------------------------------------------------------
(* CheckQueryIsValidToSplitVisitor *)

\* Variant: the optional directive is left out.
supported_directives_without_optional == {FilterDirectiveName, OutputDirectiveName}

supported_directives ==
    {FilterDirectiveName, OutputDirectiveName, OptionalDirectiveName}

\* Variant: the optional directive is not in the supported set.
enter_directive_without_optional(node) ==
    IF node.name \notin supported_directives_without_optional
    THEN Raise("GraphQLValidationError", "directive not yet supported")
    ELSE NoError

enter_directive(node) ==
    IF node.name \notin supported_directives
    THEN Raise("GraphQLValidationError", "directive not yet supported")
    ELSE NoError

\* Variant: the empty selections list is not taken for a property field.
is_property_field_ast_only_none(field) == field.selection_set = None

\* For a FieldNode; any other input raises AssertionError, see
\* is_property_field_ast_raises.
is_property_field_ast(field) ==
    \/ field.selection_set = None
    \/ field.selection_set.selections = <<>>

is_property_field_ast_raises(field) == field.kind # "FieldNode"

RECURSIVE ScanSelections(_, _, _)

\* The for loop of enter_selection_set from position i on, seen_vertex_field
\* being the local flag.
ScanSelections(selections, i, seen_vertex_field) ==
    IF i > Len(selections) THEN NoError
    ELSE LET field == selections[i] IN
         IF field.kind = "InlineFragmentNode"
         THEN Raise("GraphQLValidationError", "inline fragment coexists")
         ELSE IF field.kind = "FragmentSpreadNode"
         THEN Raise("GraphQLValidationError", "fragment spread")
         ELSE IF field.kind # "FieldNode"
         THEN Raise("AssertionError", "not a FieldNode")
         ELSE IF is_property_field_ast(field)
         THEN IF seen_vertex_field
              THEN Raise("GraphQLValidationError", "property after vertex")
              ELSE ScanSelections(selections, i + 1, seen_vertex_field)
         ELSE ScanSelections(selections, i + 1, TRUE)

\* Variant: the early return looks at the first selection only, not at the length.
enter_selection_set_first_inline(node) ==
    LET selections == node.selections IN
    IF Len(selections) >= 1 /\ selections[1].kind = "InlineFragmentNode"
    THEN NoError
    ELSE ScanSelections(selections, 1, FALSE)

\* Variant: the early return takes any single selection, not only an inline fragment.
enter_selection_set_any_single(node) ==
    LET selections == node.selections IN
    IF Len(selections) = 1
    THEN NoError
    ELSE ScanSelections(selections, 1, FALSE)

enter_selection_set(node) ==
    LET selections == node.selections IN
    IF Len(selections) = 1 /\ selections[1].kind = "InlineFragmentNode"
    THEN NoError
    ELSE ScanSelections(selections, 1, FALSE)

\* The handler the split visitor has for a node, if any.
SplitVisitorEnter(node) ==
    CASE node.kind = "DirectiveNode" -> enter_directive(node)
      [] node.kind = "SelectionSetNode" -> enter_selection_set(node)
      [] OTHER -> NoError

-----------------------------------------------------------------------------
(* check_query_is_valid_to_split *)

\* Variant: the errors of validate() are counted and the walk runs anyway.
Validate_walks_anyway ==
    /\ entry = "check_query_is_valid_to_split"
    /\ pc = "validate"
    /\ \E n \in 0..1 :
         /\ validation_errors' = n
         /\ outcome' = outcome
         /\ pc' = "visit"
         /\ stack' = EnterCalls(<<ast>>)
    /\ UNCHANGED <<call_vars, entry, ast, last, heap, schema_vars>>

\* validate(schema, query_ast) is the library's generic validation; its result,
\* the number of errors, is an input here.
Validate ==
    /\ entry = "check_query_is_valid_to_split"
    /\ pc = "validate"
    /\ \E n \in 0..1 :
         /\ validation_errors' = n
         /\ IF n > 0
            THEN /\ outcome' = Raise("GraphQLValidationError", "AST does not validate")
                 /\ pc' = "done"
                 /\ stack' = <<>>
            ELSE /\ outcome' = outcome
                 /\ pc' = "visit"
                 /\ stack' = EnterCalls(<<ast>>)
    /\ UNCHANGED <<call_vars, entry, ast, last, heap, schema_vars>>

\* One step of visit(query_ast, CheckQueryIsValidToSplitVisitor()).
SplitVisit ==
    /\ entry = "check_query_is_valid_to_split"
    /\ pc = "visit"
    /\ stack # <<>>
    /\ LET call == Head(stack)
           result == SplitVisitorEnter(call.node)
       IN /\ last' = [op |-> call.op, node |-> call.node, result |-> result]
          /\ IF result # NoError
             THEN /\ outcome' = result
                  /\ pc' = "done"
                  /\ stack' = <<>>
             ELSE LET rest == EnterCalls(Children(call.node)) \o Tail(stack) IN
                  /\ stack' = rest
                  /\ pc' = IF rest = <<>> THEN "done" ELSE "visit"
                  /\ outcome' = IF rest = <<>> THEN NoError ELSE outcome
    /\ UNCHANGED <<call_vars, entry, ast, validation_errors, heap, schema_vars>>

Running == [exc |-> "running", msg |-> ""]

\* No function was called on its own.
NoCall == args = None /\ returned = None

\* No schema was built and no matcher visitor constructed.
NoSchemaCheck ==
    /\ schema = None
    /\ query_type = None
    /\ in_query_type = FALSE
    /\ stages = <<>>

InitSplit ==
    /\ entry = "check_query_is_valid_to_split"
    /\ pc = "validate"
    /\ ast \in QueryDocuments
    /\ stack = <<>>
    /\ last = Idle
    /\ NoCall
    /\ outcome = Running
    /\ validation_errors = 0
    /\ heap = <<>>
    /\ NoSchemaCheck

NextSplit == Validate \/ SplitVisit

SpecSplit == InitSplit /\ [][NextSplit]_vars

-----------------------------------------------------------------------------
(* Properties of the split validator *)

SplitWalk == entry = "check_query_is_valid_to_split"

\* The walk has just called enter_selection_set on a scope.
ScopeChecked ==
    /\ SplitWalk
    /\ last.op = "enter"
    /\ last.node.kind = "SelectionSetNode"

\* The walk has just called enter_directive.
DirectiveChecked ==
    /\ SplitWalk
    /\ last.op = "enter"
    /\ last.node.kind = "DirectiveNode"

\* The walk visited every node and raised nothing.
SplitWalkCompleted == SplitWalk /\ pc = "done" /\ outcome = NoError

SubSelections(s) ==
    IF s.selection_set = None THEN <<>> ELSE s.selection_set.selections

IsPropertyField(s) == s.kind = "FieldNode" /\ Len(SubSelections(s)) = 0

IsVertexField(s) == s.kind = "FieldNode" /\ Len(SubSelections(s)) > 0

OnlyFields(sels) == \A i \in 1..Len(sels) : sels[i].kind = "FieldNode"

HasKind(sels, kind) == \E i \in 1..Len(sels) : sels[i].kind = kind

SingleInlineFragment(sels) ==
    Len(sels) = 1 /\ sels[1].kind = "InlineFragmentNode"

PropertiesFormPrefix(sels) ==
    \A i, j \in 1..Len(sels) :
        (i < j /\ IsVertexField(sels[i])) => ~IsPropertyField(sels[j])

RECURSIVE NodesBelow(_)

\* A node and every node below it.
NodesBelow(node) ==
    {node} \cup UNION { NodesBelow(Children(node)[i]) : i \in 1..Len(Children(node)) }

ScopesOf(document) ==
    { n.selections : n \in { m \in NodesBelow(document) : m.kind = "SelectionSetNode" } }

DirectivesOf(document) ==
    { m \in NodesBelow(document) : m.kind = "DirectiveNode" }

RootScope(document) == document.definitions[1].selection_set.selections

\* C1: a scope that is not a single inline fragment and holds only fields is
\* accepted exactly when its property fields form a prefix of it, and is
\* rejected with GraphQLValidationError otherwise; this holds for every scope the
\* walk checks, whatever scopes were checked before it.
C1_PropertyBeforeVertex ==
    (ScopeChecked /\ ~SingleInlineFragment(last.node.selections)
                  /\ OnlyFields(last.node.selections))
    => /\ (last.result = NoError) <=> PropertiesFormPrefix(last.node.selections)
       /\ last.result # NoError => last.result.exc = "GraphQLValidationError"

\* A nested scope that holds a property field is accepted although the scope
\* above it has already shown a vertex field.
C1_Witness ==
    /\ ScopeChecked
    /\ last.node.selections # RootScope(ast)
    /\ \E i \in 1..Len(RootScope(ast)) : IsVertexField(RootScope(ast)[i])
    /\ Len(last.node.selections) >= 2
    /\ OnlyFields(last.node.selections)
    /\ \E i \in 1..Len(last.node.selections) : IsPropertyField(last.node.selections[i])
    /\ \E i \in 1..Len(last.node.selections) : IsVertexField(last.node.selections[i])
    /\ last.result = NoError

\* C2: a scope that is one inline fragment is accepted; a scope holding an
\* inline fragment and anything else is rejected with GraphQLValidationError; in
\* a query the walk accepts, every scope is one inline fragment or has none.
C2_InlineFragmentExclusive ==
    /\ ScopeChecked =>
         /\ SingleInlineFragment(last.node.selections) => last.result = NoError
         /\ (HasKind(last.node.selections, "InlineFragmentNode")
               /\ Len(last.node.selections) >= 2)
            => last.result.exc = "GraphQLValidationError"
    /\ SplitWalkCompleted =>
         \A sels \in ScopesOf(ast) :
            SingleInlineFragment(sels) \/ ~HasKind(sels, "InlineFragmentNode")

\* An inline fragment that follows a field in its scope is rejected.
C2_Witness ==
    /\ ScopeChecked
    /\ Len(last.node.selections) >= 2
    /\ last.node.selections[1].kind = "FieldNode"
    /\ last.node.selections[Len(last.node.selections)].kind = "InlineFragmentNode"
    /\ last.result.exc = "GraphQLValidationError"

\* C3: a directive the walk enters is rejected with GraphQLValidationError unless
\* it is named filter, output or optional; the walk never completes on a query
\* holding another directive, and raises the directive error only for one.
C3_DirectiveWhitelist ==
    /\ DirectiveChecked =>
         /\ (last.result = NoError)
              <=> last.node.name \in {"filter", "output", "optional"}
         /\ last.result # NoError => last.result.exc = "GraphQLValidationError"
    /\ SplitWalkCompleted =>
         \A d \in DirectivesOf(ast) : d.name \in {"filter", "output", "optional"}
    /\ (SplitWalk /\ outcome.msg = "directive not yet supported") =>
         \E d \in DirectivesOf(ast) : d.name \notin {"filter", "output", "optional"}

\* The optional directive on a nested selection is let through.
C3_Witness ==
    /\ DirectiveChecked
    /\ last.node.name = "optional"
    /\ last.result = NoError
    /\ \E sels \in ScopesOf(ast) :
         \E i \in 1..Len(sels) : sels[i].directives = <<last.node>>

FirstOfKind(sels, kind) ==
    CHOOSE i \in 1..Len(sels) :
        sels[i].kind = kind /\ \A j \in 1..(i - 1) : sels[j].kind # kind

\* C4: a scope holding a fragment spread is rejected with GraphQLValidationError:
\* for the spread, unless a selection before it was rejected for being an inline
\* fragment or a property field after a vertex field; no query the walk accepts
\* holds a fragment spread.
C4_FragmentSpreadRejected ==
    /\ (ScopeChecked /\ HasKind(last.node.selections, "FragmentSpreadNode")) =>
         LET sels == last.node.selections
             before == SubSeq(sels, 1, FirstOfKind(sels, "FragmentSpreadNode") - 1)
         IN /\ last.result.exc = "GraphQLValidationError"
            /\ (last.result.msg = "fragment spread")
                 <=> (OnlyFields(before) /\ PropertiesFormPrefix(before))
    /\ SplitWalkCompleted =>
         \A sels \in ScopesOf(ast) : ~HasKind(sels, "FragmentSpreadNode")

\* A scope whose only selection is a fragment spread is rejected for it.
C4_Witness ==
    /\ ScopeChecked
    /\ Len(last.node.selections) = 1
    /\ last.node.selections[1].kind = "FragmentSpreadNode"
    /\ last.result = Raise("GraphQLValidationError", "fragment spread")

-----------------------------------------------------------------------------
(* get_copy_of_node_with_new_name *)

\* Objects live in heap, a sequence; an object's identity is its index.  A node
\* object holds references: "name" to its NameNode and "other", which stands for
\* each attribute that is not the name (copy() treats them all alike).

NameNodeObject(value) == [kind |-> "NameNode", value |-> value]

ListObject(tag) == [kind |-> "list", tag |-> tag]

NodeObject(kind, name_ref, other_ref) ==
    [kind |-> kind, name |-> name_ref, other |-> other_ref]

\* Variant: scalar type definitions are taken too.
allowed_types_with_scalar ==
    { "EnumTypeDefinitionNode", "FieldNode", "FieldDefinitionNode",
      "InterfaceTypeDefinitionNode", "NamedTypeNode", "ObjectTypeDefinitionNode",
      "UnionTypeDefinitionNode", "ScalarTypeDefinitionNode" }

allowed_types ==
    { "EnumTypeDefinitionNode", "FieldNode", "FieldDefinitionNode",
      "InterfaceTypeDefinitionNode", "NamedTypeNode", "ObjectTypeDefinitionNode",
      "UnionTypeDefinitionNode" }

\* Node classes a caller may hold: the allowed ones and some that are not.
RenameInputKinds ==
    allowed_types \cup
    { "ScalarTypeDefinitionNode", "InputObjectTypeDefinitionNode", "DirectiveNode" }

RenameNames == { <<"D", "o", "g">>, <<"C", "a", "t">> }

\* Variant: the name of the input node's own NameNode is overwritten, and the
\* input node returned.
get_copy_of_node_with_new_name_in_place(h, node, new_name) ==
    LET node_type == h[node].kind IN
    IF node_type \notin allowed_types
    THEN [heap |-> h, node |-> 0,
          result |-> Raise("AssertionError", "input node is not allowed")]
    ELSE [heap |-> [h EXCEPT ![h[node].name].value = new_name],
          node |-> node,
          result |-> NoError]

\* copy(node) allocates the copy, NameNode(value=new_name) the new name, and the
\* assignment stores the reference in the copy.  Returns the heap afterwards, the
\* returned node's identity (0 when the call raises) and the exception.
get_copy_of_node_with_new_name(h, node, new_name) ==
    LET node_type == h[node].kind IN
    IF node_type \notin allowed_types
    THEN [heap |-> h, node |-> 0,
          result |-> Raise("AssertionError", "input node is not allowed")]
    ELSE LET node_with_new_name == Len(h) + 1
             name_node == Len(h) + 2
             copied == Append(Append(h, h[node]), NameNodeObject(new_name))
         IN [heap |-> [copied EXCEPT ![node_with_new_name].name = name_node],
             node |-> node_with_new_name,
             result |-> NoError]

\* Successful renames a behaviour may hold.
MaxRenames == 2

Rename ==
    /\ entry = "get_copy_of_node_with_new_name"
    /\ Len(heap) < 3 + 2 * MaxRenames
    /\ \E node \in DOMAIN heap, new_name \in RenameNames :
         LET r == get_copy_of_node_with_new_name(heap, node, new_name) IN
         /\ heap' = r.heap
         /\ last' = [op |-> "rename", node |-> node, new_name |-> new_name,
                     returned |-> r.node, result |-> r.result]
         /\ outcome' = r.result
    /\ UNCHANGED <<call_vars, entry, pc, ast, stack, validation_errors, schema_vars>>

InitRename ==
    /\ entry = "get_copy_of_node_with_new_name"
    /\ pc = "call"
    /\ ast = None
    /\ stack = <<>>
    /\ last = Idle
    /\ NoCall
    /\ outcome = Running
    /\ validation_errors = 0
    /\ NoSchemaCheck
    /\ \E kind \in RenameInputKinds, name \in RenameNames :
         heap = << NameNodeObject(name), ListObject(1), NodeObject(kind, 1, 2) >>

NextRename == Rename

SpecRename == InitRename /\ [][NextRename]_vars

-----------------------------------------------------------------------------
(* Properties of get_copy_of_node_with_new_name *)

Renaming == entry = "get_copy_of_node_with_new_name"

Renamed == Renaming /\ last.op = "rename" /\ last.result = NoError

RenameFailed == Renaming /\ last.op = "rename" /\ last.result # NoError

\* The last successful call returned a node of the input's class, named
\* new_name, holding the very objects the input holds in its other attributes.
RenamedCopyIsFaithful ==
    Renamed =>
        /\ last.returned \in DOMAIN heap
        /\ last.returned # last.node
        /\ heap[last.returned].kind = heap[last.node].kind
        /\ heap[heap[last.returned].name].value = last.new_name
        /\ heap[last.returned].other = heap[last.node].other
        /\ heap[last.returned].name # heap[last.node].name

\* A call changes no object that existed before it, and what it returns did
\* not exist before it.
RenameKeepsObjects ==
    /\ \A i \in DOMAIN heap : i \in DOMAIN heap' /\ heap'[i] = heap[i]
    /\ last'.result = NoError => last'.returned \notin DOMAIN heap

\* C5: renaming a node of an allowed class returns a new node of that class
\* whose name is new_name and whose other attributes are the input's own;
\* no call, then or later, changes the input node, its name or any other
\* object that exists.
C5_RenamePurity == [](RenamedCopyIsFaithful) /\ [][RenameKeepsObjects]_vars

\* A node that was returned by one rename has been renamed again, to another
\* name, and still carries the name the first rename gave it.
C5_Witness ==
    /\ Renamed
    /\ last.node > 3
    /\ heap[heap[last.node].name].value # last.new_name
    /\ heap[heap[last.returned].name].value = last.new_name

\* The seven classes of this model's input nodes for which the claim says the
\* rename succeeds.
RenameableKinds ==
    { "EnumTypeDefinitionNode", "ObjectTypeDefinitionNode",
      "InterfaceTypeDefinitionNode", "UnionTypeDefinitionNode", "NamedTypeNode",
      "FieldNode", "FieldDefinitionNode" }

\* C6: the rename succeeds exactly for the seven renameable classes; for any
\* other class it raises the not-allowed AssertionError, returns no node and
\* leaves every object as it was.
C6_RenameKindRestriction ==
    /\ [](Renaming /\ last.op = "rename" =>
            /\ (last.result = NoError) <=> heap[last.node].kind \in RenameableKinds
            /\ last.result # NoError =>
                 /\ last.result.exc = "AssertionError"
                 /\ last.returned = 0)
    /\ [][last'.result # NoError => heap' = heap]_vars

\* A scalar type definition was refused.
C6_Witness ==
    /\ RenameFailed
    /\ heap[last.node].kind = "ScalarTypeDefinitionNode"
    /\ last.result.exc = "AssertionError"
    /\ Len(heap) = 3

-----------------------------------------------------------------------------
(* Names.  A name is the tuple of its characters. *)

Letters ==
    { "a", "b", "c", "d", "e", "f", "g", "h", "i", "j", "k", "l", "m",
      "n", "o", "p", "q", "r", "s", "t", "u", "v", "w", "x", "y", "z",
      "A", "B", "C", "D", "E", "F", "G", "H", "I", "J", "K", "L", "M",
      "N", "O", "P", "Q", "R", "S", "T", "U", "V", "W", "X", "Y", "Z" }

Digits == { "0", "1", "2", "3", "4", "5", "6", "7", "8", "9" }

\* re_name.match(name), re_name being "^[_a-zA-Z][_a-zA-Z0-9]*$": the first
\* character is a letter or "_", letters, digits and "_" follow up to position
\* k, and "$" matches there: at the end of the string, or just before a line
\* break that is the last character of the string.
re_name_match(name) ==
    /\ Len(name) >= 1
    /\ name[1] \in Letters \cup {"_"}
    /\ \E k \in 1..Len(name) :
         /\ \A i \in 2..k : name[i] \in Letters \cup Digits \cup {"_"}
         /\ \/ k = Len(name)
            \/ k = Len(name) - 1 /\ name[Len(name)] = "\n"

\* name.startswith(prefix)
startswith(name, prefix) ==
    /\ Len(name) >= Len(prefix)
    /\ \A i \in 1..Len(prefix) : name[i] = prefix[i]

type_name_is_valid(name) ==
    re_name_match(name) /\ ~startswith(name, <<"_", "_">>)

-----------------------------------------------------------------------------
(* Schema ASTs *)

NameNode(value) == [kind |-> "NameNode", value |-> value]

NamedTypeNode(name) == [kind |-> "NamedTypeNode", name |-> NameNode(name)]

ListTypeNode(type) == [kind |-> "ListTypeNode", type |-> type]

NonNullTypeNode(type) == [kind |-> "NonNullTypeNode", type |-> type]

FieldDefinitionNode(name, type) ==
    [kind |-> "FieldDefinitionNode", name |-> NameNode(name), type |-> type]

InputValueDefinitionNode(name, type) ==
    [kind |-> "InputValueDefinitionNode", name |-> NameNode(name), type |-> type]

FieldDefinitionNodeWithArguments(name, arguments, type) ==
    [kind |-> "FieldDefinitionNode", name |-> NameNode(name),
     arguments |-> arguments, type |-> type]

EnumValueDefinitionNode(name) ==
    [kind |-> "EnumValueDefinitionNode", name |-> NameNode(name)]

EnumTypeDefinitionNode(name, values) ==
    [kind |-> "EnumTypeDefinitionNode", name |-> NameNode(name), values |-> values]

ObjectTypeDefinitionNode(name, fields) ==
    [kind |-> "ObjectTypeDefinitionNode", name |-> NameNode(name), fields |-> fields]

InterfaceTypeDefinitionNode(name, fields) ==
    [kind |-> "InterfaceTypeDefinitionNode", name |-> NameNode(name),
     fields |-> fields]

ObjectTypeExtensionNode(name, fields) ==
    [kind |-> "ObjectTypeExtensionNode", name |-> NameNode(name), fields |-> fields]

\* A node of a class whose only child is its name: an enum, scalar, union or
\* input object type definition without members, a directive definition.
NamedNode(kind, name) == [kind |-> kind, name |-> NameNode(name)]

\* A node of a class without children in this model.
Node(kind) == [kind |-> kind]

-----------------------------------------------------------------------------
(* CheckValidTypesAndNamesVisitor *)

disallowed_types == { "InputObjectTypeDefinitionNode", "ObjectTypeExtensionNode" }

unexpected_types ==
    { "FieldNode", "FragmentDefinitionNode", "FragmentSpreadNode",
      "InlineFragmentNode", "ObjectFieldNode", "ObjectValueNode",
      "OperationDefinitionNode", "SelectionSetNode", "VariableNode",
      "VariableDefinitionNode" }

\* Variant: the names of field definitions are checked too.
check_name_validity_types_with_fields ==
    { "EnumTypeDefinitionNode", "InterfaceTypeDefinitionNode",
      "ObjectTypeDefinitionNode", "ScalarTypeDefinitionNode",
      "UnionTypeDefinitionNode", "FieldDefinitionNode" }

check_name_validity_types ==
    { "EnumTypeDefinitionNode", "InterfaceTypeDefinitionNode",
      "ObjectTypeDefinitionNode", "ScalarTypeDefinitionNode",
      "UnionTypeDefinitionNode" }

\* Variant: names are checked before the class of the node is.
CheckValidTypesAndNamesVisitor_enter_name_first(node) ==
    LET node_type == node.kind IN
    IF node_type \in check_name_validity_types \cup disallowed_types
       /\ ~type_name_is_valid(node.name.value)
    THEN Raise("InvalidTypeNameError", "not a valid, unreserved GraphQL name")
    ELSE IF node_type \in disallowed_types
    THEN Raise("SchemaStructureError", "Node type not allowed")
    ELSE IF node_type \in unexpected_types
    THEN Raise("SchemaStructureError", "Node type unexpected in schema AST")
    ELSE NoError

\* CheckValidTypesAndNamesVisitor.enter, called by visit() on every node.
CheckValidTypesAndNamesVisitor_enter(node) ==
    LET node_type == node.kind IN
    IF node_type \in disallowed_types
    THEN Raise("SchemaStructureError", "Node type not allowed")
    ELSE IF node_type \in unexpected_types
    THEN Raise("SchemaStructureError", "Node type unexpected in schema AST")
    ELSE IF node_type \in check_name_validity_types
    THEN IF ~type_name_is_valid(node.name.value)
         THEN Raise("InvalidTypeNameError", "not a valid, unreserved GraphQL name")
         ELSE NoError
    ELSE NoError

-----------------------------------------------------------------------------
(* Schema documents for the structural validator *)

LegalName == <<"D", "o", "g">>

ReservedName == <<"_", "_", "D", "o", "g">>

DigitLeadingName == <<"1", "D", "o", "g">>

LineBreakName == <<"D", "o", "g", "\n">>

TypeNames == { LegalName, ReservedName, DigitLeadingName, LineBreakName }

\* A field definition with a reserved name and a wrapped type.
SampleField == FieldDefinitionNode(<<"_", "_", "f">>, ListTypeNode(NamedTypeNode(LegalName)))

\* A field definition with an argument that has a reserved name.
SampleFieldWithArgument ==
    FieldDefinitionNodeWithArguments(<<"f">>,
        <<InputValueDefinitionNode(<<"_", "_", "a">>, NamedTypeNode(LegalName))>>,
        NamedTypeNode(LegalName))

FieldLists == { <<>>, <<SampleField>> }

NameCheckedDefinitions ==
    { NamedNode(kind, name) :
        kind \in { "EnumTypeDefinitionNode", "ScalarTypeDefinitionNode",
                   "UnionTypeDefinitionNode" },
        name \in TypeNames }
    \cup { ObjectTypeDefinitionNode(name, fields) :
             name \in TypeNames, fields \in FieldLists }
    \cup { InterfaceTypeDefinitionNode(name, fields) :
             name \in TypeNames, fields \in FieldLists }

DisallowedDefinitions ==
    { NamedNode("InputObjectTypeDefinitionNode", name) :
        name \in { LegalName, ReservedName } }
    \cup { ObjectTypeExtensionNode(name, <<SampleField>>) :
             name \in { LegalName, ReservedName } }

UnexpectedDefinitions ==
    { FieldNode(<<>>, None), FragmentSpreadNode(<<>>),
      InlineFragmentNode(<<>>, SelectionSetNode(<<>>)),
      OperationDefinitionNode(<<>>, SelectionSetNode(<<>>)),
      SelectionSetNode(<<>>),
      Node("FragmentDefinitionNode"), Node("ObjectFieldNode"),
      Node("ObjectValueNode"), Node("VariableNode"),
      Node("VariableDefinitionNode") }

OtherDefinitions ==
    { Node("SchemaDefinitionNode"),
      NamedNode("DirectiveDefinitionNode", ReservedName) }

StructuralDefinitions ==
    NameCheckedDefinitions \cup DisallowedDefinitions
        \cup UnexpectedDefinitions \cup OtherDefinitions

RECURSIVE SeqsOfLen(_, _)
SeqsOfLen(S, n) ==
    IF n = 0 THEN { <<>> }
    ELSE { <<h>> \o t : h \in S, t \in SeqsOfLen(S, n - 1) }

\* The documents of at most n definitions, each taken from definitions.
Documents(definitions, n) ==
    CupOver(LAMBDA k : { DocumentNode(ds) : ds \in SeqsOfLen(definitions, k) }, 0, n)

StructuralDocuments == Documents(StructuralDefinitions, MaxDefinitions)

-----------------------------------------------------------------------------
(* visit(ast, CheckValidTypesAndNamesVisitor()) *)

\* The call of visit: the document is the first node to enter.
StartStructural ==
    /\ entry \in { "CheckValidTypesAndNamesVisitor", "check_ast_schema_is_valid" }
    /\ pc = "visit_structural"
    /\ stack' = EnterCalls(<<ast>>)
    /\ pc' = "structural"
    /\ stages' = Append(stages, "structural")
    /\ UNCHANGED <<call_vars, entry, ast, last, outcome, validation_errors, heap,
                   schema, query_type, in_query_type>>

\* One step of the walk: enter(node) on the next node in pre-order.  When the
\* walk is over, check_ast_schema_is_valid goes on to get_query_type_name.
StructuralVisit ==
    /\ entry \in { "CheckValidTypesAndNamesVisitor", "check_ast_schema_is_valid" }
    /\ pc = "structural"
    /\ stack # <<>>
    /\ LET call == Head(stack)
           result == CheckValidTypesAndNamesVisitor_enter(call.node)
           rest == EnterCalls(Children(call.node)) \o Tail(stack)
       IN /\ last' = [op |-> call.op, node |-> call.node, result |-> result]
          /\ IF result # NoError
             THEN /\ outcome' = result
                  /\ pc' = "done"
                  /\ stack' = <<>>
             ELSE /\ stack' = rest
                  /\ IF rest # <<>>
                     THEN pc' = "structural" /\ outcome' = outcome
                     ELSE IF entry = "check_ast_schema_is_valid"
                     THEN pc' = "get_query_type" /\ outcome' = outcome
                     ELSE pc' = "done" /\ outcome' = NoError
    /\ UNCHANGED <<call_vars, entry, ast, validation_errors, heap, schema_vars>>

InitStructural ==
    /\ entry = "CheckValidTypesAndNamesVisitor"
    /\ pc = "visit_structural"
    /\ ast \in StructuralDocuments
    /\ stack = <<>>
    /\ last = Idle
    /\ NoCall
    /\ outcome = Running
    /\ validation_errors = 0
    /\ heap = <<>>
    /\ NoSchemaCheck

NextStructural == StartStructural \/ StructuralVisit

SpecStructural == InitStructural /\ [][NextStructural]_vars

-----------------------------------------------------------------------------
(* Properties of the structural validator *)

StructuralWalk == entry = "CheckValidTypesAndNamesVisitor"

\* The walk has just called enter on a node.
NodeEntered == StructuralWalk /\ last.op = "enter"

StructuralWalkDone == StructuralWalk /\ pc = "done"

\* A legal, non-reserved type name: letters, digits and underscores only, at
\* least one of them, no digit first, no two underscores first.
IsLegalTypeName(name) ==
    /\ Len(name) >= 1
    /\ \A i \in 1..Len(name) : name[i] \in Letters \cup Digits \cup {"_"}
    /\ name[1] \notin Digits
    /\ ~(Len(name) >= 2 /\ name[1] = "_" /\ name[2] = "_")

DisallowedKinds == { "InputObjectTypeDefinitionNode", "ObjectTypeExtensionNode" }

UnexpectedKinds ==
    { "FieldNode", "FragmentDefinitionNode", "FragmentSpreadNode",
      "InlineFragmentNode", "ObjectValueNode", "ObjectFieldNode",
      "OperationDefinitionNode", "SelectionSetNode", "VariableNode",
      "VariableDefinitionNode" }

NameCheckedKinds ==
    { "EnumTypeDefinitionNode", "InterfaceTypeDefinitionNode",
      "ObjectTypeDefinitionNode", "ScalarTypeDefinitionNode",
      "UnionTypeDefinitionNode" }

KindsAreDisjoint ==
    /\ DisallowedKinds \cap UnexpectedKinds = {}
    /\ DisallowedKinds \cap NameCheckedKinds = {}
    /\ UnexpectedKinds \cap NameCheckedKinds = {}

\* What enter must have done on the node it was last called on, a name being
\* acceptable when Acceptable(name).
PerNodeRule(Acceptable(_)) ==
    LET kind == last.node.kind
        result == last.result
    IN IF kind \in DisallowedKinds \cup UnexpectedKinds
       THEN result.exc = "SchemaStructureError"
       ELSE IF kind \in NameCheckedKinds
       THEN IF Acceptable(last.node.name.value)
            THEN result = NoError
            ELSE result.exc = "InvalidTypeNameError"
       ELSE result = NoError

\* Every call of enter follows the per-node rule with the names that
\* type_name_is_valid accepts.
PerNodeRuleAsCoded ==
    KindsAreDisjoint /\ (NodeEntered => PerNodeRule(type_name_is_valid))

\* C7: on each visited node, a disallowed or unexpected class fails with
\* SchemaStructureError, an enum, interface, object, scalar or union type
\* definition fails with InvalidTypeNameError unless its name is a legal,
\* non-reserved type name, and a node of any other class never fails; the
\* three sets of classes are pairwise disjoint.
C7_PerNodeRule ==
    KindsAreDisjoint /\ (NodeEntered => PerNodeRule(IsLegalTypeName))

\* A type definition whose name ends in a line break was entered and accepted.
C7_Witness ==
    /\ NodeEntered
    /\ last.node.kind \in NameCheckedKinds
    /\ last.node.name.value = LineBreakName
    /\ last.result = NoError

RECURSIVE PreOrder(_), PreOrderAll(_)

\* A node and the nodes below it, in the order of the walk.
PreOrder(node) == <<node>> \o PreOrderAll(Children(node))

PreOrderAll(nodes) ==
    IF nodes = <<>> THEN <<>>
    ELSE PreOrder(Head(nodes)) \o PreOrderAll(Tail(nodes))

PositionsOfKind(walk, kinds) == { i \in DOMAIN walk : walk[i].kind \in kinds }

TypeDefinitionNamesAreLegal(walk) ==
    \A i \in PositionsOfKind(walk, NameCheckedKinds) :
        IsLegalTypeName(walk[i].name.value)

\* The node breaks the structural rules: its class, or the name it defines.
Offends(node) ==
    \/ node.kind \in DisallowedKinds \cup UnexpectedKinds
    \/ node.kind \in NameCheckedKinds /\ ~type_name_is_valid(node.name.value)

\* The class of the first offending node of a walk that has one.
FirstOffender(walk) ==
    walk[CHOOSE i \in DOMAIN walk :
            Offends(walk[i]) /\ \A j \in 1..(i - 1) : ~Offends(walk[j])]

\* An AST without disallowed and unexpected classes whose type definitions
\* have legal names passes the walk.
CleanSchemaPasses ==
    LET walk == PreOrder(ast) IN
    (/\ StructuralWalkDone
     /\ PositionsOfKind(walk, DisallowedKinds \cup UnexpectedKinds) = {}
     /\ TypeDefinitionNamesAreLegal(walk))
    => outcome = NoError

\* C8 as stated: an AST with exactly one node of a disallowed class fails the
\* walk with SchemaStructureError whatever else it holds, and a clean AST
\* passes.
C8_AsStated ==
    LET walk == PreOrder(ast) IN
    /\ (StructuralWalkDone /\ Cardinality(PositionsOfKind(walk, DisallowedKinds)) = 1)
       => outcome.exc = "SchemaStructureError"
    /\ CleanSchemaPasses

\* C8: an AST with exactly one node of a disallowed class fails the walk, with
\* InvalidTypeNameError when the first offending node of the walk is a type
\* definition with a refused name and with SchemaStructureError otherwise; an
\* AST without disallowed and unexpected classes whose type definition names
\* are legal and non-reserved passes.
C8_StructuralSoundness ==
    LET walk == PreOrder(ast) IN
    /\ (StructuralWalkDone /\ Cardinality(PositionsOfKind(walk, DisallowedKinds)) = 1)
       => outcome.exc =
            IF FirstOffender(walk).kind \in NameCheckedKinds
            THEN "InvalidTypeNameError"
            ELSE "SchemaStructureError"
    /\ CleanSchemaPasses

\* The only disallowed node comes after a type definition with a reserved
\* name, and the walk ended with InvalidTypeNameError.
C8_Witness ==
    /\ StructuralWalkDone
    /\ Len(ast.definitions) = 2
    /\ ast.definitions[1].kind = "ScalarTypeDefinitionNode"
    /\ ast.definitions[1].name.value = ReservedName
    /\ ast.definitions[2].kind = "InputObjectTypeDefinitionNode"
    /\ outcome.exc = "InvalidTypeNameError"

-----------------------------------------------------------------------------
(* CheckQueryTypeFieldsNameMatchVisitor *)

\* Variant: entering any object type sets the flag.
enter_object_type_definition_any(node, flag) == TRUE

\* The value of in_query_type after enter_object_type_definition(node).
enter_object_type_definition(node, flag) ==
    IF node.name.value = query_type THEN TRUE ELSE flag

\* The value of in_query_type after leave_object_type_definition(node).
leave_object_type_definition(node, flag) ==
    IF node.name.value = query_type THEN FALSE ELSE flag

RECURSIVE get_ast_with_non_null_and_list_stripped(_)

\* The named type inside the list and non-null wrappers of a type.
get_ast_with_non_null_and_list_stripped(type) ==
    IF type.kind \in { "ListTypeNode", "NonNullTypeNode" }
    THEN get_ast_with_non_null_and_list_stripped(type.type)
    ELSE type

\* Variant: only the outermost wrapper is taken off.
enter_field_definition_one_wrapper(node, flag) ==
    IF flag
    THEN LET field_name == node.name.value
             type_node == IF node.type.kind \in { "ListTypeNode", "NonNullTypeNode" }
                          THEN node.type.type ELSE node.type
         IN IF type_node.kind # "NamedTypeNode"
               \/ field_name # type_node.name.value
            THEN Raise("SchemaStructureError",
                       "Query type's field name does not match queried type name")
            ELSE NoError
    ELSE NoError

enter_field_definition(node, flag) ==
    IF flag
    THEN LET field_name == node.name.value
             type_node == get_ast_with_non_null_and_list_stripped(node.type)
             queried_type_name == type_node.name.value
         IN IF field_name # queried_type_name
            THEN Raise("SchemaStructureError",
                       "Query type's field name does not match queried type name")
            ELSE NoError
    ELSE NoError

RECURSIVE HandlerCalls(_), HandlerCallsAll(_)

\* The calls visit() makes on a node and the nodes below it: the visitor has
\* a handler for entering and leaving object type definitions and for
\* entering field definitions, and visit() calls nothing on other nodes.
HandlerCalls(node) ==
    LET below == HandlerCallsAll(Children(node)) IN
    IF node.kind = "ObjectTypeDefinitionNode"
    THEN <<[op |-> "enter", node |-> node]>> \o below
            \o <<[op |-> "leave", node |-> node]>>
    ELSE IF node.kind = "FieldDefinitionNode"
    THEN <<[op |-> "enter", node |-> node]>> \o below
    ELSE below

HandlerCallsAll(nodes) ==
    IF nodes = <<>> THEN <<>>
    ELSE HandlerCalls(Head(nodes)) \o HandlerCallsAll(Tail(nodes))

\* One handler call of visit(ast, CheckQueryTypeFieldsNameMatchVisitor(query_type)).
MatcherVisit ==
    /\ entry \in { "CheckQueryTypeFieldsNameMatchVisitor", "check_ast_schema_is_valid" }
    /\ pc = "matcher"
    /\ stack # <<>>
    /\ LET call == Head(stack)
           node == call.node
           result == IF node.kind = "FieldDefinitionNode"
                     THEN enter_field_definition(node, in_query_type)
                     ELSE NoError
       IN /\ last' = [op |-> call.op, node |-> node, result |-> result]
          /\ in_query_type' =
                IF node.kind # "ObjectTypeDefinitionNode" THEN in_query_type
                ELSE IF call.op = "enter"
                THEN enter_object_type_definition(node, in_query_type)
                ELSE leave_object_type_definition(node, in_query_type)
          /\ IF result # NoError
             THEN /\ outcome' = result
                  /\ pc' = "done"
                  /\ stack' = <<>>
             ELSE /\ stack' = Tail(stack)
                  /\ pc' = IF Tail(stack) = <<>> THEN "done" ELSE "matcher"
                  /\ outcome' = IF Tail(stack) = <<>> THEN NoError ELSE outcome
    /\ UNCHANGED <<call_vars, entry, ast, validation_errors, heap, schema, query_type, stages>>

-----------------------------------------------------------------------------
(* Schema documents for the query-type field matcher *)

NameQuery == <<"Q", "u", "e", "r", "y">>

NameAnimal == <<"A", "n", "i", "m", "a", "l">>

NameAnimalLower == <<"a", "n", "i", "m", "a", "l">>

NamePet == <<"p", "e", "t">>

RECURSIVE WrappedTypes(_)

\* The types with depth wrappers around the named type Animal; no non-null
\* wrapper holds a non-null wrapper.
WrappedTypes(depth) ==
    IF depth = 0 THEN { NamedTypeNode(NameAnimal) }
    ELSE { ListTypeNode(t) : t \in WrappedTypes(depth - 1) }
         \cup { NonNullTypeNode(t) :
                  t \in { u \in WrappedTypes(depth - 1) : u.kind # "NonNullTypeNode" } }

FieldsOfSize(n) ==
    { FieldDefinitionNode(name, type) :
        name \in { NameAnimal, NameAnimalLower, NamePet },
        type \in WrappedTypes(n - 1) }

RECURSIVE FieldSeqsOfSize(_)
FieldSeqsOfSize(n) ==
    IF n = 0 THEN { <<>> }
    ELSE CupOver(LAMBDA k : { <<f>> \o t : f \in FieldsOfSize(k),
                                          t \in FieldSeqsOfSize(n - k) }, 1, n)

MatcherDefinitionsOfSize(n) ==
    { ObjectTypeDefinitionNode(name, fields) :
        name \in { NameQuery, NameAnimal }, fields \in FieldSeqsOfSize(n - 1) }
    \cup { InterfaceTypeDefinitionNode(NameQuery, fields) :
             fields \in FieldSeqsOfSize(n - 1) }

RECURSIVE MatcherDefinitionSeqsOfSize(_)
MatcherDefinitionSeqsOfSize(n) ==
    IF n = 0 THEN { <<>> }
    ELSE CupOver(LAMBDA k : { <<d>> \o t : d \in MatcherDefinitionsOfSize(k),
                                          t \in MatcherDefinitionSeqsOfSize(n - k) },
                 1, n)

MatcherDocuments ==
    CupOver(LAMBDA n : { DocumentNode(ds) : ds \in MatcherDefinitionSeqsOfSize(n) },
            0, MaxSchemaNodes)

\* CheckQueryTypeFieldsNameMatchVisitor(query_type) is constructed and given
\* to visit(); the walk is over at once when it holds no node with a handler.
StartMatcher ==
    /\ entry \in { "CheckQueryTypeFieldsNameMatchVisitor", "check_ast_schema_is_valid" }
    /\ pc = "visit_matcher"
    /\ in_query_type' = FALSE
    /\ stack' = HandlerCalls(ast)
    /\ pc' = IF HandlerCalls(ast) = <<>> THEN "done" ELSE "matcher"
    /\ outcome' = IF HandlerCalls(ast) = <<>> THEN NoError ELSE outcome
    /\ stages' = Append(stages, "matcher")
    /\ UNCHANGED <<call_vars, entry, ast, last, validation_errors, heap, schema, query_type>>

InitMatcher ==
    /\ entry = "CheckQueryTypeFieldsNameMatchVisitor"
    /\ pc = "visit_matcher"
    /\ ast \in MatcherDocuments
    /\ stack = <<>>
    /\ last = Idle
    /\ NoCall
    /\ outcome = Running
    /\ validation_errors = 0
    /\ heap = <<>>
    /\ schema = None
    /\ query_type \in { NameQuery, NameAnimal }
    /\ in_query_type = FALSE
    /\ stages = <<>>

NextMatcher == StartMatcher \/ MatcherVisit

SpecMatcher == InitMatcher /\ [][NextMatcher]_vars

-----------------------------------------------------------------------------
(* Properties of the query-type field matcher *)

MatcherWalk == entry = "CheckQueryTypeFieldsNameMatchVisitor"

MatcherWalkDone == MatcherWalk /\ pc = "done"

RECURSIVE FieldsOfObjectTypesNamed(_, _)

\* The field definitions, in document order, of the object type definitions
\* with the given name.
FieldsOfObjectTypesNamed(definitions, name) ==
    IF definitions = <<>> THEN <<>>
    ELSE LET d == Head(definitions) IN
         (IF d.kind = "ObjectTypeDefinitionNode" /\ d.name.value = name
          THEN d.fields ELSE <<>>)
         \o FieldsOfObjectTypesNamed(Tail(definitions), name)

RECURSIVE StrippedTypeName(_)

\* The name of a declared type without its list and non-null wrappers.
StrippedTypeName(type) ==
    IF type.kind = "NamedTypeNode" THEN type.name.value
    ELSE StrippedTypeName(type.type)

FieldNameMatchesType(field) == field.name.value = StrippedTypeName(field.type)

\* The walk passes exactly when every field of the query type matches, and
\* otherwise fails with SchemaStructureError on the first field that differs.
MatcherAcceptsMatchingFields ==
    MatcherWalkDone =>
        LET fields == FieldsOfObjectTypesNamed(ast.definitions, query_type)
            differing == { i \in DOMAIN fields : ~FieldNameMatchesType(fields[i]) }
        IN IF differing = {}
           THEN outcome = NoError
           ELSE /\ outcome.exc = "SchemaStructureError"
                /\ last.op = "enter"
                /\ last.node = fields[CHOOSE i \in differing :
                                        \A j \in differing : i <= j]

\* The schema whose query type Query has the one field name: type.
RootFieldSchema(name, type) ==
    DocumentNode(<<ObjectTypeDefinitionNode(NameQuery, <<FieldDefinitionNode(name, type)>>)>>)

RootFieldPasses(name, type) ==
    (MatcherWalkDone /\ query_type = NameQuery /\ ast = RootFieldSchema(name, type))
    => outcome = NoError

RootFieldFails(name, type) ==
    (MatcherWalkDone /\ query_type = NameQuery /\ ast = RootFieldSchema(name, type))
    => outcome.exc = "SchemaStructureError"

\* Animal and [Animal!]!
PlainAnimal == NamedTypeNode(NameAnimal)

ListOfAnimal == NonNullTypeNode(ListTypeNode(NonNullTypeNode(NamedTypeNode(NameAnimal))))

\* C9 as stated: the walk passes exactly when every field of the query type
\* is named as its stripped type, failing with SchemaStructureError at the
\* first field that differs; animal: Animal and animal: [Animal!]! pass and
\* pet: Animal fails.
C9_AsStated ==
    /\ MatcherAcceptsMatchingFields
    /\ RootFieldPasses(NameAnimalLower, PlainAnimal)
    /\ RootFieldPasses(NameAnimalLower, ListOfAnimal)
    /\ RootFieldFails(NamePet, PlainAnimal)

\* C9: the walk passes exactly when every field of the object type named as
\* the query type has the very name of its declared type without list and
\* non-null wrappers, and fails with SchemaStructureError at the first field
\* that differs; Animal: Animal and Animal: [Animal!]! pass, animal: Animal,
\* animal: [Animal!]! and pet: Animal fail.
C9_QueryTypeFieldMatch ==
    /\ MatcherAcceptsMatchingFields
    /\ RootFieldPasses(NameAnimal, PlainAnimal)
    /\ RootFieldPasses(NameAnimal, ListOfAnimal)
    /\ RootFieldFails(NameAnimalLower, PlainAnimal)
    /\ RootFieldFails(NameAnimalLower, ListOfAnimal)
    /\ RootFieldFails(NamePet, PlainAnimal)

\* The query type's first field, a wrapped Animal named Animal, passed and
\* its second field, animal: Animal, failed the walk.
C9_Witness ==
    /\ MatcherWalkDone
    /\ query_type = NameQuery
    /\ Len(ast.definitions) = 1
    /\ ast.definitions[1].kind = "ObjectTypeDefinitionNode"
    /\ ast.definitions[1].name.value = NameQuery
    /\ Len(ast.definitions[1].fields) = 2
    /\ ast.definitions[1].fields[1] =
          FieldDefinitionNode(NameAnimal, NonNullTypeNode(ListTypeNode(PlainAnimal)))
    /\ ast.definitions[1].fields[2] = FieldDefinitionNode(NameAnimalLower, PlainAnimal)
    /\ last.node = ast.definitions[1].fields[2]
    /\ outcome.exc = "SchemaStructureError"

-----------------------------------------------------------------------------
(* check_ast_schema_is_valid *)

GraphQLSchema(query, mutation, subscription) ==
    [kind |-> "GraphQLSchema", query_type |-> query, mutation_type |-> mutation,
     subscription_type |-> subscription]

GraphQLObjectType(name) == [kind |-> "GraphQLObjectType", name |-> name]

\* What build_ast_schema(ast) may take for a root type: nothing, or one of
\* the object types the document defines.
RootTypes(document) ==
    { None } \cup
    { GraphQLObjectType(document.definitions[i].name.value) :
        i \in { j \in DOMAIN document.definitions :
                  document.definitions[j].kind = "ObjectTypeDefinitionNode" } }

\* The schemas build_ast_schema(ast) may return.
BuiltSchemas(document) ==
    { GraphQLSchema(query, mutation, subscription) :
        query \in RootTypes(document), mutation \in RootTypes(document),
        subscription \in RootTypes(document) }

\* build_ast_schema is library code: it raises, or returns one of the schemas
\* above.  A schema with a mutation or a subscription type is refused.
BuildSchema ==
    /\ entry = "check_ast_schema_is_valid"
    /\ pc = "build"
    /\ stages' = Append(stages, "build")
    /\ \/ /\ schema' = None
          /\ outcome' = Raise("TypeError", "build_ast_schema raised")
          /\ pc' = "done"
       \/ \E built \in BuiltSchemas(ast) :
            /\ schema' = built
            /\ IF built.mutation_type # None
               THEN /\ outcome' = Raise("SchemaStructureError",
                                        "schemas that contain mutations not supported")
                    /\ pc' = "done"
               ELSE IF built.subscription_type # None
               THEN /\ outcome' = Raise("SchemaStructureError",
                                        "schemas that contain subscriptions not supported")
                    /\ pc' = "done"
               ELSE /\ outcome' = outcome
                    /\ pc' = "visit_structural"
    /\ UNCHANGED <<call_vars, entry, ast, stack, last, validation_errors, heap,
                   query_type, in_query_type>>

\* query_type = get_query_type_name(schema)
get_query_type_name ==
    /\ entry = "check_ast_schema_is_valid"
    /\ pc = "get_query_type"
    /\ IF schema.query_type = None
       THEN /\ outcome' = Raise("AssertionError", "Schema's query_type field is None")
            /\ pc' = "done"
            /\ query_type' = query_type
       ELSE /\ query_type' = schema.query_type.name
            /\ pc' = "visit_matcher"
            /\ outcome' = outcome
    /\ UNCHANGED <<call_vars, entry, ast, stack, last, validation_errors, heap,
                   schema, in_query_type, stages>>

\* Schema documents for the schema validity check.
ValidDefinitions ==
    { ObjectTypeDefinitionNode(NameQuery, <<>>),
      ObjectTypeDefinitionNode(NameQuery, <<FieldDefinitionNode(NameAnimal, NamedTypeNode(NameAnimal))>>),
      ObjectTypeDefinitionNode(NameQuery, <<FieldDefinitionNode(NamePet, NamedTypeNode(NameAnimal))>>),
      ObjectTypeDefinitionNode(ReservedName, <<>>),
      NamedNode("EnumTypeDefinitionNode", LineBreakName),
      NamedNode("EnumTypeDefinitionNode", NameAnimal),
      NamedNode("InputObjectTypeDefinitionNode", LegalName),
      ObjectTypeDefinitionNode(LegalName, <<SampleField>>),
      InterfaceTypeDefinitionNode(LegalName, <<SampleFieldWithArgument>>),
      EnumTypeDefinitionNode(LegalName, <<EnumValueDefinitionNode(<<"_", "_", "v">>)>>) }

ValidDocuments == Documents(ValidDefinitions, MaxDefinitions)

InitValid ==
    /\ entry = "check_ast_schema_is_valid"
    /\ pc = "build"
    /\ ast \in ValidDocuments
    /\ stack = <<>>
    /\ last = Idle
    /\ NoCall
    /\ outcome = Running
    /\ validation_errors = 0
    /\ heap = <<>>
    /\ NoSchemaCheck

NextValid ==
    \/ BuildSchema
    \/ StartStructural
    \/ StructuralVisit
    \/ get_query_type_name
    \/ StartMatcher
    \/ MatcherVisit

SpecValid == InitValid /\ [][NextValid]_vars

-----------------------------------------------------------------------------
(* Properties of check_ast_schema_is_valid *)

ValidCheck == entry = "check_ast_schema_is_valid"

ValidCheckDone == ValidCheck /\ pc = "done"

IsPrefix(s, t) == Len(s) <= Len(t) /\ \A i \in DOMAIN s : s[i] = t[i]

Started(stage) == \E i \in DOMAIN stages : stages[i] = stage

SchemaBuilt == schema # None

DeclaresMutationOrSubscription ==
    SchemaBuilt /\ (schema.mutation_type # None \/ schema.subscription_type # None)

\* Some node of the AST is of a disallowed or unexpected class.
HasIllegalKind ==
    PositionsOfKind(PreOrder(ast), DisallowedKinds \cup UnexpectedKinds) # {}

\* Some type definition of the AST has a name that is not Acceptable.
HasTypeNameNot(Acceptable(_)) ==
    \E i \in PositionsOfKind(PreOrder(ast), NameCheckedKinds) :
        ~Acceptable(PreOrder(ast)[i].name.value)

\* Some field of the object type named name differs from its stripped type.
HasMismatchingFieldIn(name) ==
    LET fields == FieldsOfObjectTypesNamed(ast.definitions, name) IN
    \E i \in DOMAIN fields : ~FieldNameMatchesType(fields[i])

\* The three checks run in order, each only after the ones before it passed
\* (the structural walk passes an AST that has no offending node), and the
\* call succeeds only when all three passed.
ChecksRunInOrder ==
    ValidCheck =>
      /\ IsPrefix(stages, <<"build", "structural", "matcher">>)
      /\ outcome # Running => pc = "done" /\ stack = <<>>
      /\ Started("structural") => SchemaBuilt /\ ~DeclaresMutationOrSubscription
      /\ Started("matcher") =>
            /\ \A i \in DOMAIN PreOrder(ast) : ~Offends(PreOrder(ast)[i])
            /\ schema.query_type # None /\ query_type = schema.query_type.name
      /\ (pc = "done" /\ DeclaresMutationOrSubscription) =>
            outcome.exc = "SchemaStructureError" /\ stages = <<"build">>
      /\ (pc = "done" /\ Started("structural") /\ ~Started("matcher")) =>
            outcome # NoError
      /\ outcome = NoError =>
            /\ stages = <<"build", "structural", "matcher">>
            /\ ~HasMismatchingFieldIn(query_type)

\* A schema with a mutation type and a type name that is not Acceptable fails
\* with SchemaStructureError; one with such a type name and a mismatching
\* field of its query type, and nothing else wrong, fails with
\* InvalidTypeNameError.
FirstFailureWins(Acceptable(_)) ==
    ValidCheckDone /\ SchemaBuilt =>
      /\ (schema.mutation_type # None /\ HasTypeNameNot(Acceptable))
            => outcome.exc = "SchemaStructureError"
      /\ (/\ ~DeclaresMutationOrSubscription
          /\ ~HasIllegalKind
          /\ HasTypeNameNot(Acceptable)
          /\ schema.query_type # None
          /\ HasMismatchingFieldIn(schema.query_type.name))
            => outcome.exc = "InvalidTypeNameError"

\* The ordering holds with the names type_name_is_valid accepts.
ValidityCheckOrderingAsCoded ==
    ChecksRunInOrder /\ FirstFailureWins(type_name_is_valid)

\* C10: check_ast_schema_is_valid builds the schema and refuses mutation and
\* subscription types, then runs the structural walk, then the query-type
\* field walk; it stops at the first check that fails and succeeds only if all
\* three passed, so a mutation type with an illegal type name gives
\* SchemaStructureError and an illegal type name with a mismatching query
\* field gives InvalidTypeNameError.
C10_ValidityCheckOrdering ==
    ChecksRunInOrder /\ FirstFailureWins(IsLegalTypeName)

\* An enum whose name ends in a line break and a query type with the field
\* pet: Animal: the structural walk passed and the field walk failed.
C10_Witness ==
    /\ ValidCheckDone
    /\ ast = DocumentNode(<<NamedNode("EnumTypeDefinitionNode", LineBreakName),
                           ObjectTypeDefinitionNode(NameQuery,
                               <<FieldDefinitionNode(NamePet, NamedTypeNode(NameAnimal))>>)>>)
    /\ stages = <<"build", "structural", "matcher">>
    /\ outcome.exc = "SchemaStructureError"

-----------------------------------------------------------------------------
(* Functions called on their own *)

\* The state before function is called with one of inputs.
InitCall(function, inputs) ==
    /\ entry = function
    /\ pc = "call"
    /\ ast = None
    /\ stack = <<>>
    /\ last = Idle
    /\ outcome = Running
    /\ validation_errors = 0
    /\ heap = <<>>
    /\ NoSchemaCheck
    /\ args \in inputs
    /\ returned = None

\* What a call of such a function leaves alone.
call_frame ==
    <<entry, ast, stack, last, validation_errors, heap, schema_vars, args>>

\* The characters names are made of here: letters, an underscore, a digit,
\* a hyphen and a line break.
NameChars == { "a", "Z", "_", "7", "-", "\n" }

\* The strings of at most n characters.
Strings(n) == CupOver(LAMBDA k : SeqsOfLen(NameChars, k), 0, n)

\* A call of type_name_is_valid(name).
CallTypeNameIsValid ==
    /\ entry = "type_name_is_valid"
    /\ pc = "call"
    /\ returned' = type_name_is_valid(args)
    /\ outcome' = NoError
    /\ pc' = "done"
    /\ UNCHANGED call_frame

InitTypeName == InitCall("type_name_is_valid", Strings(MaxNameLen))

NextTypeName == CallTypeNameIsValid

SpecTypeName == InitTypeName /\ [][NextTypeName]_vars

TypeNameChecked == entry = "type_name_is_valid" /\ pc = "done"

\* C11: type_name_is_valid(s) is true exactly when s is non-empty, made of
\* ASCII letters, digits and underscores only, does not start with a digit
\* and does not start with two underscores; so the empty string, a string
\* with any other character (a trailing line break too), a digit-leading
\* string and a string starting with "__" are refused, and a single leading
\* underscore is accepted.
C11_TypeNameLegality ==
    TypeNameChecked => (returned <=> IsLegalTypeName(args))

\* A name that ends in a line break was accepted.
C11_Witness ==
    /\ TypeNameChecked
    /\ args = <<"a", "\n">>
    /\ returned = TRUE

\* Apart from one trailing line break after a legal name, the function
\* accepts exactly the legal names.
TypeNameLegalityAsCoded ==
    TypeNameChecked =>
        (returned <=>
            \/ IsLegalTypeName(args)
            \/ /\ Len(args) >= 2
               /\ args[Len(args)] = "\n"
               /\ IsLegalTypeName(SubSeq(args, 1, Len(args) - 1)))

-----------------------------------------------------------------------------
(* check_schema_identifier_is_valid *)

\* A Python value: the name of its class and, for a str or bytes, its
\* characters.
PyValue(type, value) == [type |-> type, value |-> value]

alphanumeric_and_underscore == Letters \cup Digits \cup {"_"}

\* Variant: the empty string is not refused.
check_schema_identifier_is_valid_allows_empty(identifier) ==
    IF identifier.type # "str"
    THEN Raise("ValueError", "Schema identifier is not a string")
    ELSE LET illegal_characters ==
                 { identifier.value[i] : i \in DOMAIN identifier.value }
                     \ alphanumeric_and_underscore
         IN IF illegal_characters # {}
            THEN Raise("ValueError", "Schema identifier contains illegal characters")
            ELSE NoError

check_schema_identifier_is_valid(identifier) ==
    IF identifier.type # "str"
    THEN Raise("ValueError", "Schema identifier is not a string")
    ELSE IF identifier.value = <<>>
    THEN Raise("ValueError", "Schema identifier must be a nonempty string")
    ELSE LET illegal_characters ==
                 { identifier.value[i] : i \in DOMAIN identifier.value }
                     \ alphanumeric_and_underscore
         IN IF illegal_characters # {}
            THEN Raise("ValueError", "Schema identifier contains illegal characters")
            ELSE NoError

\* The identifiers given: every short string, and values that are no strings.
Identifiers ==
    { PyValue("str", chars) : chars \in Strings(MaxNameLen) }
    \cup { PyValue("bytes", chars) : chars \in Strings(1) }
    \cup { PyValue("NoneType", <<>>) }

\* A call of check_schema_identifier_is_valid(identifier).
CallCheckSchemaIdentifier ==
    /\ entry = "check_schema_identifier_is_valid"
    /\ pc = "call"
    /\ outcome' = check_schema_identifier_is_valid(args)
    /\ returned' = None
    /\ pc' = "done"
    /\ UNCHANGED call_frame

InitIdentifier == InitCall("check_schema_identifier_is_valid", Identifiers)

NextIdentifier == CallCheckSchemaIdentifier

SpecIdentifier == InitIdentifier /\ [][NextIdentifier]_vars

IdentifierChecked == entry = "check_schema_identifier_is_valid" /\ pc = "done"

\* The identifier is a string that holds a character outside [A-Za-z0-9_].
HasForeignCharacter(identifier) ==
    \E i \in DOMAIN identifier.value :
        identifier.value[i] \notin Letters \cup Digits \cup {"_"}

\* C12: check_schema_identifier_is_valid(id) fails, with the invalid
\* identifier error, exactly when id is not a string, is empty or holds a
\* character outside [A-Za-z0-9_]; every other string passes, also one that
\* starts with a digit or with two underscores, which type_name_is_valid
\* refuses.
C12_SchemaIdentifierCheck ==
    IdentifierChecked =>
      /\ (outcome # NoError) <=>
            \/ args.type # "str"
            \/ args.value = <<>>
            \/ HasForeignCharacter(args)
      /\ outcome # NoError => outcome.exc = "ValueError"
      /\ args \in { PyValue("str", <<"7", "a">>), PyValue("str", <<"_", "_", "a">>) }
            => outcome = NoError /\ ~type_name_is_valid(args.value)

\* An identifier that starts with two underscores passed.
C12_Witness ==
    /\ IdentifierChecked
    /\ args = PyValue("str", <<"_", "_", "a">>)
    /\ outcome = NoError

-----------------------------------------------------------------------------
(* SchemaRenameNameConflictError *)

\* A dict is the set of its <<key, value>> items; the dicts that give each of
\* keys at most one of values.
Dicts(keys, values) ==
    { d \in SUBSET (keys \X values) :
        \A i \in d, j \in d : i[1] = j[1] => i = j }

\* Variant: one empty argument is enough for the ValueError.
SchemaRenameNameConflictError_init_either(name_conflicts, renamed_to_builtin_scalar_conflicts) ==
    IF name_conflicts = {} \/ renamed_to_builtin_scalar_conflicts = {}
    THEN [result |-> Raise("ValueError", "without at least one conflict"),
          self |-> None]
    ELSE [result |-> NoError,
          self |-> [kind |-> "SchemaRenameNameConflictError",
                    name_conflicts |-> name_conflicts,
                    renamed_to_builtin_scalar_conflicts |->
                        renamed_to_builtin_scalar_conflicts]]

\* SchemaRenameNameConflictError.__init__: the error object, unless both
\* arguments are empty.
SchemaRenameNameConflictError_init(name_conflicts, renamed_to_builtin_scalar_conflicts) ==
    IF name_conflicts = {} /\ renamed_to_builtin_scalar_conflicts = {}
    THEN [result |-> Raise("ValueError", "without at least one conflict"),
          self |-> None]
    ELSE [result |-> NoError,
          self |-> [kind |-> "SchemaRenameNameConflictError",
                    name_conflicts |-> name_conflicts,
                    renamed_to_builtin_scalar_conflicts |->
                        renamed_to_builtin_scalar_conflicts]]

\* SchemaRenameNameConflictError.__str__: the message, as the explanations it
\* joins, each with the dict it prints; an empty explanation is left out.
SchemaRenameNameConflictError_str(self) ==
    LET name_conflicts_message ==
            IF self.name_conflicts # {}
            THEN <<[explains |-> "name_conflicts", prints |-> self.name_conflicts]>>
            ELSE <<>>
        renamed_to_builtin_scalar_conflicts_message ==
            IF self.renamed_to_builtin_scalar_conflicts # {}
            THEN <<[explains |-> "renamed_to_builtin_scalar_conflicts",
                    prints |-> self.renamed_to_builtin_scalar_conflicts]>>
            ELSE <<>>
    IN name_conflicts_message \o renamed_to_builtin_scalar_conflicts_message

\* The arguments given to the constructor.
ConflictArguments ==
    { [name_conflicts |-> n, renamed_to_builtin_scalar_conflicts |-> r] :
        n \in Dicts({"Pet", "Animal"}, {{"Dog"}, {"Dog", "Cat"}, {"Dog", "Cat", "Cow"}}),
        r \in Dicts({"Identifier", "Num"}, {"String", "Int"}) }

\* SchemaRenameNameConflictError(name_conflicts, renamed_to_builtin_scalar_conflicts)
ConstructConflictError ==
    /\ entry = "SchemaRenameNameConflictError"
    /\ pc = "call"
    /\ LET r == SchemaRenameNameConflictError_init(
                    args.name_conflicts, args.renamed_to_builtin_scalar_conflicts)
       IN /\ returned' = r.self
          /\ outcome' = r.result
          /\ pc' = IF r.result = NoError THEN "constructed" ELSE "done"
    /\ UNCHANGED call_frame

\* str(error)
StrConflictError ==
    /\ entry = "SchemaRenameNameConflictError"
    /\ pc = "constructed"
    /\ last' = [op |-> "__str__", node |-> returned,
                result |-> SchemaRenameNameConflictError_str(returned)]
    /\ pc' = "done"
    /\ UNCHANGED <<entry, ast, stack, outcome, validation_errors, heap,
                   schema_vars, call_vars>>

InitConflictError == InitCall("SchemaRenameNameConflictError", ConflictArguments)

NextConflictError == ConstructConflictError \/ StrConflictError

SpecConflictError == InitConflictError /\ [][NextConflictError]_vars

ConflictErrorCall == entry = "SchemaRenameNameConflictError"

\* The message holds the explanation of that name.
Explains(message, name) == \E i \in DOMAIN message : message[i].explains = name

\* C13: constructing the error with both mappings empty fails with a generic
\* error and gives no error object; with at least one mapping non-empty it
\* succeeds and the object carries both mappings as given.  So every error
\* object has a non-empty mapping, and its message is not empty and holds the
\* name conflict explanation exactly when name_conflicts is not empty and the
\* built-in scalar explanation exactly when the other mapping is not empty.
C13_ConflictErrorConstruction ==
    ConflictErrorCall =>
      /\ pc # "call" =>
           IF args.name_conflicts = {} /\ args.renamed_to_builtin_scalar_conflicts = {}
           THEN outcome.exc = "ValueError" /\ returned = None
           ELSE /\ outcome = NoError
                /\ returned.kind = "SchemaRenameNameConflictError"
                /\ returned.name_conflicts = args.name_conflicts
                /\ returned.renamed_to_builtin_scalar_conflicts =
                       args.renamed_to_builtin_scalar_conflicts
      /\ returned # None =>
           returned.name_conflicts # {} \/ returned.renamed_to_builtin_scalar_conflicts # {}
      /\ last.op = "__str__" =>
           /\ last.result # <<>>
           /\ Explains(last.result, "name_conflicts") <=> returned.name_conflicts # {}
           /\ Explains(last.result, "renamed_to_builtin_scalar_conflicts")
                 <=> returned.renamed_to_builtin_scalar_conflicts # {}

\* An error with only the built-in scalar mapping was built and printed.
C13_Witness ==
    /\ ConflictErrorCall
    /\ last.op = "__str__"
    /\ returned.name_conflicts = {}
    /\ returned.renamed_to_builtin_scalar_conflicts = {<<"Identifier", "String">>}
    /\ Len(last.result) = 1

-----------------------------------------------------------------------------
(* Rename conflict detector *)

builtin_scalar_type_names == { "Int", "Float", "String", "Boolean", "ID" }

DictKeys(d) == { i[1] : i \in d }

\* d[key]
DictGet(d, key) == (CHOOSE i \in d : i[1] = key)[2]

\* d[key] = value
DictPut(d, key, value) == { i \in d : i[1] # key } \cup { <<key, value>> }

\* An entry of a renaming plan: the type is suppressed, or gets new_name.
Suppress == [suppressed |-> TRUE, new_name |-> ""]

RenameTo(new_name) == [suppressed |-> FALSE, new_name |-> new_name]

IsSuppressed(plan, type) ==
    type \in DictKeys(plan) /\ DictGet(plan, type).suppressed

\* The name of a type that is not suppressed under the plan: its own when
\* the plan has no entry for it.
PlannedName(plan, type) ==
    IF type \in DictKeys(plan) THEN DictGet(plan, type).new_name ELSE type

RECURSIVE GroupByNewName(_, _, _)

\* The groups of original names by new name, over the types from position i.
GroupByNewName(types, plan, i) ==
    IF i > Len(types) THEN {}
    ELSE LET groups == GroupByNewName(types, plan, i + 1)
             type == types[i]
         IN IF IsSuppressed(plan, type) THEN groups
            ELSE LET new_name == PlannedName(plan, type)
                     group == IF new_name \in DictKeys(groups)
                              THEN DictGet(groups, new_name) ELSE {}
                 IN DictPut(groups, new_name, group \cup {type})

\* Variant: suppressed types are grouped too, under their own name.
name_conflicts_with_suppressed(types, plan) ==
    LET names == { types[i] : i \in DOMAIN types }
        NewName(t) == IF IsSuppressed(plan, t) THEN t ELSE PlannedName(plan, t)
    IN { <<k, { t \in names : NewName(t) = k }>> :
           k \in { n \in { NewName(t) : t \in names } :
                     Cardinality({ t \in names : NewName(t) = n }) >= 2 } }

\* The groups of two or more original names.
name_conflicts(types, plan) ==
    { g \in GroupByNewName(types, plan, 1) : Cardinality(g[2]) >= 2 }

\* Variant: a type is reported only when it is also part of a name conflict.
builtin_conflicts_within_name_conflicts(types, plan) ==
    { <<types[i], PlannedName(plan, types[i])>> :
        i \in { j \in DOMAIN types :
                  /\ ~IsSuppressed(plan, types[j])
                  /\ PlannedName(plan, types[j]) \in builtin_scalar_type_names
                  /\ PlannedName(plan, types[j]) \in DictKeys(name_conflicts(types, plan)) } }

\* The types renamed onto a built-in scalar, each with that name.
builtin_conflicts(types, plan) ==
    { <<types[i], PlannedName(plan, types[i])>> :
        i \in { j \in DOMAIN types :
                  /\ ~IsSuppressed(plan, types[j])
                  /\ PlannedName(plan, types[j]) \in builtin_scalar_type_names } }

\* The types of the schemas given: the first n of these.
TypePool == <<"Dog", "Cat", "Identifier", "Bird">>

PlanEntries == { Suppress } \cup { RenameTo(n) : n \in { "Pet", "Cat", "String", "Int" } }

DetectorArguments ==
    CupOver(LAMBDA n : { [types |-> SubSeq(TypePool, 1, n), plan |-> plan] :
                          plan \in Dicts({ TypePool[i] : i \in 1..n }, PlanEntries) },
            1, MaxTypes)

\* One run of the detector: both mappings are computed over the whole schema,
\* then SchemaRenameNameConflictError is raised with them unless both are
\* empty.
DetectRenameConflicts ==
    /\ entry = "rename_conflict_detector"
    /\ pc = "call"
    /\ LET n == name_conflicts(args.types, args.plan)
           b == builtin_conflicts(args.types, args.plan)
       IN /\ returned' = [name_conflicts |-> n, builtin_conflicts |-> b]
          /\ outcome' =
                IF n # {} \/ b # {}
                THEN Raise("SchemaRenameNameConflictError", "conflicts")
                ELSE NoError
    /\ pc' = "done"
    /\ UNCHANGED call_frame

InitDetector == InitCall("rename_conflict_detector", DetectorArguments)

NextDetector == DetectRenameConflicts

SpecDetector == InitDetector /\ [][NextDetector]_vars

DetectorRan == entry = "rename_conflict_detector" /\ pc = "done"

SchemaTypes == { args.types[i] : i \in DOMAIN args.types }

\* The types of the schema that the plan does not suppress.
KeptTypes == { t \in SchemaTypes : <<t, Suppress>> \notin args.plan }

\* The name a kept type has after renaming.
NewNameOf(t) ==
    IF \E e \in PlanEntries : <<t, e>> \in args.plan
    THEN (CHOOSE e \in PlanEntries : <<t, e>> \in args.plan).new_name
    ELSE t

MappedTo(k) == { t \in KeptTypes : NewNameOf(t) = k }

AllNewNames == SchemaTypes \cup { e.new_name : e \in PlanEntries }

PlanIsBijective ==
    \A t, u \in KeptTypes : NewNameOf(t) = NewNameOf(u) => t = u

\* C14: name_conflicts has an entry for k exactly when two or more kept
\* types are mapped to k (a type without a plan entry is mapped to its own
\* name), its value is the set of all of them, no suppressed type occurs in
\* an entry; Dog -> Pet with Cat -> Pet gives {Pet: {Dog, Cat}}, and a
\* bijective plan gives an empty name_conflicts.
C14_NameConflicts ==
    DetectorRan =>
        /\ \A k \in AllNewNames :
              (k \in DictKeys(returned.name_conflicts))
                  <=> Cardinality(MappedTo(k)) >= 2
        /\ DictKeys(returned.name_conflicts) \subseteq AllNewNames
        /\ \A i \in returned.name_conflicts :
              /\ i[2] = MappedTo(i[1])
              /\ i[2] \cap (SchemaTypes \ KeptTypes) = {}
        /\ \A i, j \in returned.name_conflicts : i[1] = j[1] => i = j
        /\ (args.plan = { <<"Dog", RenameTo("Pet")>>, <<"Cat", RenameTo("Pet")>> }
               => returned.name_conflicts = { <<"Pet", { "Dog", "Cat" }>> })
        /\ (PlanIsBijective => returned.name_conflicts = {})

\* Dog is renamed onto Cat, which keeps its name, while Identifier is
\* suppressed: one entry, without the suppressed type.
C14_Witness ==
    /\ DetectorRan
    /\ args.plan = { <<"Dog", RenameTo("Cat")>>, <<"Identifier", Suppress>> }
    /\ returned.name_conflicts = { <<"Cat", { "Dog", "Cat" }>> }

\* C15: builtin_conflicts has the entry original -> new exactly when original
\* is a kept type whose new name is a built-in scalar name; a single type
\* renamed onto a built-in scalar is reported though no two types share a new
\* name; the detector fails exactly when one of the two mappings is non-empty.
C15_BuiltinConflicts ==
    DetectorRan =>
        /\ \A t \in SchemaTypes, k \in AllNewNames :
              (<<t, k>> \in returned.builtin_conflicts)
                  <=> /\ t \in KeptTypes
                      /\ NewNameOf(t) = k
                      /\ k \in { "Int", "Float", "String", "Boolean", "ID" }
        /\ returned.builtin_conflicts \subseteq SchemaTypes \X AllNewNames
        /\ (args.plan = { <<"Identifier", RenameTo("String")>> }
               => /\ returned.builtin_conflicts = { <<"Identifier", "String">> }
                  /\ returned.name_conflicts = {})
        /\ (outcome # NoError
               <=> returned.name_conflicts # {} \/ returned.builtin_conflicts # {})
        /\ (outcome # NoError
               => outcome.exc = "SchemaRenameNameConflictError")

\* Only Identifier is renamed, onto String: no name conflict, one built-in
\* conflict, and the detector fails.
C15_Witness ==
    /\ DetectorRan
    /\ args.plan = { <<"Identifier", RenameTo("String")>> }
    /\ returned.name_conflicts = {}
    /\ returned.builtin_conflicts = { <<"Identifier", "String">> }
    /\ outcome # NoError

-----------------------------------------------------------------------------
(* Cascading suppression analyzer *)

UnionTypeDefinitionNode(name, types) ==
    [kind |-> "UnionTypeDefinitionNode", name |-> NameNode(name), types |-> types]

\* A suppression set: names of suppressed types, and suppressed fields as
\* pairs of type name and field name.  A union member is suppressed when its
\* type is.
SuppressionSet(types, fields) == [types |-> types, fields |-> fields]

CascadeViolation(kind, type, field, target) ==
    [kind |-> kind, type |-> type, field |-> field, target |-> target]

HasFields(definition) ==
    definition.kind \in { "ObjectTypeDefinitionNode", "InterfaceTypeDefinitionNode" }

RECURSIVE dangling_field_owners(_, _, _)
RECURSIVE dangling_union_members_any(_, _, _)
RECURSIVE dangling_union_members(_, _, _)
RECURSIVE dangling_references_of(_, _, _)
RECURSIVE dangling_references(_, _, _)

\* First pass, from definition i on: the types that are kept while every
\* field they declare is suppressed.
dangling_field_owners(definitions, suppressed, i) ==
    IF i > Len(definitions) THEN <<>>
    ELSE LET type == definitions[i]
             rest == dangling_field_owners(definitions, suppressed, i + 1)
         IN IF /\ HasFields(type)
               /\ type.name.value \notin suppressed.types
               /\ \A j \in DOMAIN type.fields :
                     <<type.name.value, type.fields[j].name.value>> \in suppressed.fields
            THEN <<CascadeViolation("DanglingFieldOwner", type.name.value, "", "")>> \o rest
            ELSE rest

\* Variant: a union with one suppressed member is reported already.
dangling_union_members_any(definitions, suppressed, i) ==
    IF i > Len(definitions) THEN <<>>
    ELSE LET type == definitions[i]
             rest == dangling_union_members_any(definitions, suppressed, i + 1)
         IN IF /\ type.kind = "UnionTypeDefinitionNode"
               /\ type.name.value \notin suppressed.types
               /\ \E j \in DOMAIN type.types :
                     type.types[j].name.value \in suppressed.types
            THEN <<CascadeViolation("DanglingUnionMember", type.name.value, "", "")>> \o rest
            ELSE rest

\* Second pass, from definition i on: the unions that are kept while every
\* member is suppressed.
dangling_union_members(definitions, suppressed, i) ==
    IF i > Len(definitions) THEN <<>>
    ELSE LET type == definitions[i]
             rest == dangling_union_members(definitions, suppressed, i + 1)
         IN IF /\ type.kind = "UnionTypeDefinitionNode"
               /\ type.name.value \notin suppressed.types
               /\ \A j \in DOMAIN type.types :
                     type.types[j].name.value \in suppressed.types
            THEN <<CascadeViolation("DanglingUnionMember", type.name.value, "", "")>> \o rest
            ELSE rest

\* The kept fields of a type, from field j on, whose base named type is
\* suppressed.
dangling_references_of(type, suppressed, j) ==
    IF j > Len(type.fields) THEN <<>>
    ELSE LET field == type.fields[j]
             target == get_ast_with_non_null_and_list_stripped(field.type).name.value
             rest == dangling_references_of(type, suppressed, j + 1)
         IN IF /\ <<type.name.value, field.name.value>> \notin suppressed.fields
               /\ target \in suppressed.types
            THEN <<CascadeViolation("DanglingReference", type.name.value,
                                    field.name.value, target)>> \o rest
            ELSE rest

\* Third pass, from definition i on: the fields of kept types that refer to
\* a suppressed type.
dangling_references(definitions, suppressed, i) ==
    IF i > Len(definitions) THEN <<>>
    ELSE LET type == definitions[i]
             rest == dangling_references(definitions, suppressed, i + 1)
         IN IF HasFields(type) /\ type.name.value \notin suppressed.types
            THEN dangling_references_of(type, suppressed, 1) \o rest
            ELSE rest

\* interface Named { name: String }      type Pet { name: String  age: Int }
\* type Bird { name: String }            union Animal = Pet | Bird
\* type Person { pet: [Pet!]  animal: Animal }
CascadeSchema ==
    << InterfaceTypeDefinitionNode("Named",
           <<FieldDefinitionNode("name", NamedTypeNode("String"))>>),
       ObjectTypeDefinitionNode("Pet",
           <<FieldDefinitionNode("name", NamedTypeNode("String")),
             FieldDefinitionNode("age", NamedTypeNode("Int"))>>),
       ObjectTypeDefinitionNode("Bird",
           <<FieldDefinitionNode("name", NamedTypeNode("String"))>>),
       UnionTypeDefinitionNode("Animal",
           <<NamedTypeNode("Pet"), NamedTypeNode("Bird")>>),
       ObjectTypeDefinitionNode("Person",
           <<FieldDefinitionNode("pet", ListTypeNode(NonNullTypeNode(NamedTypeNode("Pet")))),
             FieldDefinitionNode("animal", NamedTypeNode("Animal"))>>) >>

CascadeTypes == { CascadeSchema[i].name.value : i \in DOMAIN CascadeSchema }

CascadeFields ==
    { p \in CascadeTypes \X { "name", "age", "pet", "animal" } :
        \E i \in DOMAIN CascadeSchema :
            /\ HasFields(CascadeSchema[i])
            /\ CascadeSchema[i].name.value = p[1]
            /\ \E j \in DOMAIN CascadeSchema[i].fields :
                  CascadeSchema[i].fields[j].name.value = p[2] }

SuppressionSets ==
    { SuppressionSet(t, f) : t \in SUBSET CascadeTypes, f \in SUBSET CascadeFields }

AnalyzerArguments ==
    { [schema |-> CascadeSchema, suppressed |-> s] :
        s \in { x \in SuppressionSets :
                  Cardinality(x.types) + Cardinality(x.fields) <= MaxSuppressed } }

CollectFieldOwners ==
    /\ entry = "cascading_suppression_analyzer"
    /\ pc = "call"
    /\ returned' = dangling_field_owners(args.schema, args.suppressed, 1)
    /\ pc' = "union_members"
    /\ UNCHANGED <<call_frame, outcome>>

CollectUnionMembers ==
    /\ entry = "cascading_suppression_analyzer"
    /\ pc = "union_members"
    /\ returned' = returned \o dangling_union_members(args.schema, args.suppressed, 1)
    /\ pc' = "references"
    /\ UNCHANGED <<call_frame, outcome>>

CollectReferences ==
    /\ entry = "cascading_suppression_analyzer"
    /\ pc = "references"
    /\ returned' = returned \o dangling_references(args.schema, args.suppressed, 1)
    /\ pc' = "collected"
    /\ UNCHANGED <<call_frame, outcome>>

\* The error carries the list collected; an empty list is no error.
RaiseCascadingSuppressionError ==
    /\ entry = "cascading_suppression_analyzer"
    /\ pc = "collected"
    /\ outcome' = IF returned # <<>>
                  THEN Raise("CascadingSuppressionError", "violations")
                  ELSE NoError
    /\ pc' = "done"
    /\ UNCHANGED <<call_frame, returned>>

InitAnalyzer ==
    /\ InitCall("cascading_suppression_analyzer", AnalyzerArguments)

NextAnalyzer ==
    \/ CollectFieldOwners
    \/ CollectUnionMembers
    \/ CollectReferences
    \/ RaiseCascadingSuppressionError

SpecAnalyzer == InitAnalyzer /\ [][NextAnalyzer]_vars

Analyzing == entry = "cascading_suppression_analyzer"

AnalysisDone == Analyzing /\ pc = "done"

TypesOfKinds(kinds) ==
    { args.schema[i] : i \in { k \in DOMAIN args.schema : args.schema[k].kind \in kinds } }

KeptTypesOfKinds(kinds) ==
    { t \in TypesOfKinds(kinds) : t.name.value \notin args.suppressed.types }

FieldsOf(type) == { type.fields[j] : j \in DOMAIN type.fields }

\* The named type of a field under at most two wrappers.
BaseNamedType(field) ==
    LET t == field.type
    IN IF t.kind = "NamedTypeNode" THEN t.name.value
       ELSE IF t.type.kind = "NamedTypeNode" THEN t.type.name.value
       ELSE t.type.type.name.value

FieldOwnerViolations ==
    { CascadeViolation("DanglingFieldOwner", t.name.value, "", "") :
        t \in { u \in KeptTypesOfKinds({ "ObjectTypeDefinitionNode",
                                         "InterfaceTypeDefinitionNode" }) :
                  \A f \in FieldsOf(u) :
                      <<u.name.value, f.name.value>> \in args.suppressed.fields } }

UnionMemberViolations ==
    { CascadeViolation("DanglingUnionMember", t.name.value, "", "") :
        t \in { u \in KeptTypesOfKinds({ "UnionTypeDefinitionNode" }) :
                  \A j \in DOMAIN u.types :
                      u.types[j].name.value \in args.suppressed.types } }

ReferenceViolations ==
    { v \in { CascadeViolation("DanglingReference", p[1], p[2], target) :
                p \in CascadeFields, target \in CascadeTypes } :
        \E t \in KeptTypesOfKinds({ "ObjectTypeDefinitionNode",
                                    "InterfaceTypeDefinitionNode" }) :
            \E f \in FieldsOf(t) :
                /\ t.name.value = v.type
                /\ f.name.value = v.field
                /\ <<v.type, v.field>> \notin args.suppressed.fields
                /\ BaseNamedType(f) = v.target
                /\ v.target \in args.suppressed.types }

AllViolations == FieldOwnerViolations \cup UnionMemberViolations \cup ReferenceViolations

Collected == { returned[i] : i \in DOMAIN returned }

\* The call goes once through the three passes, and its arguments stay as
\* they were given.
OneRound ==
    Analyzing =>
        /\ args' = args
        /\ <<pc, pc'>> \in { <<"call", "union_members">>,
                             <<"union_members", "references">>,
                             <<"references", "collected">>,
                             <<"collected", "done">> }

\* C16: one call of the analyzer collects every violation of the three kinds
\* for the suppression set given (a kept object or interface type whose
\* fields are all suppressed, a kept union whose members are all suppressed, a
\* kept field of a kept type whose base named type is suppressed), each once;
\* it fails with CascadingSuppressionError carrying that list exactly when
\* the list is non-empty; it goes through the passes once and adds no
\* suppression.
C16_CascadingSuppression ==
    /\ [](AnalysisDone =>
            /\ Collected = AllViolations
            /\ Len(returned) = Cardinality(AllViolations)
            /\ (outcome # NoError <=> AllViolations # {})
            /\ (outcome # NoError => outcome.exc = "CascadingSuppressionError"))
    /\ [][OneRound]_vars

\* Pet, Bird and the only field of Named are suppressed: the call fails with
\* violations of all three kinds, and none for Person.animal, whose type
\* Animal is dangling but not suppressed.
C16_Witness ==
    /\ AnalysisDone
    /\ outcome # NoError
    /\ args.suppressed = SuppressionSet({ "Pet", "Bird" }, { <<"Named", "name">> })
    /\ returned = << CascadeViolation("DanglingFieldOwner", "Named", "", ""),
                     CascadeViolation("DanglingUnionMember", "Animal", "", ""),
                     CascadeViolation("DanglingReference", "Person", "pet", "Pet") >>

-----------------------------------------------------------------------------
(* Names covered by the schema validity check *)

ValidCheckAccepted == ValidCheckDone /\ outcome = NoError

\* The definitions whose names are the user's, besides type definitions.
MemberKinds ==
    { "FieldDefinitionNode", "InputValueDefinitionNode", "EnumValueDefinitionNode" }

NamesOfKinds(kinds) ==
    { PreOrder(ast)[i].name.value : i \in PositionsOfKind(PreOrder(ast), kinds) }

\* A name the type-name check lets through: a legal type name, or one
\* followed by a single line break.
PassesTypeNameCheck(name) ==
    \/ IsLegalTypeName(name)
    \/ /\ Len(name) >= 2
       /\ name[Len(name)] = "\n"
       /\ IsLegalTypeName(SubSeq(name, 1, Len(name) - 1))

-----------------------------------------------------------------------------
(* check_query_is_valid_to_split on a query AST that may hold a node of
   another class among its selections *)

PropertyField == FieldNode(<<>>, None)

\* A node that is neither a field, an inline fragment nor a fragment spread.
OtherSelection == Node("VariableNode")

InnerSelections == { PropertyField, FragmentSpreadNode(<<>>), OtherSelection }

AnySelections ==
    InnerSelections
    \cup { FieldNode(<<DirectiveNode("tag")>>, None),
           InlineFragmentNode(<<>>, SelectionSetNode(<<PropertyField>>)) }
    \cup { FieldNode(<<>>, SelectionSetNode(<<s>>)) : s \in InnerSelections }

AnyQueryDocuments ==
    { DocumentNode(<<OperationDefinitionNode(<<>>, SelectionSetNode(sels))>>) :
        sels \in CupOver(LAMBDA n : SeqsOfLen(AnySelections, n), 0, MaxSelections) }

InitSplitAny ==
    /\ entry = "check_query_is_valid_to_split"
    /\ pc = "validate"
    /\ ast \in AnyQueryDocuments
    /\ stack = <<>>
    /\ last = Idle
    /\ NoCall
    /\ outcome = Running
    /\ validation_errors = 0
    /\ heap = <<>>
    /\ NoSchemaCheck

SpecSplitAny == InitSplitAny /\ [][NextSplit]_vars

SplitCallDone == SplitWalk /\ pc = "done"

SelectionKinds == { "FieldNode", "InlineFragmentNode", "FragmentSpreadNode" }

\* Some handler of the walk refuses a node of the AST.
WalkRefuses ==
    \E i \in DOMAIN PreOrder(ast) : SplitVisitorEnter(PreOrder(ast)[i]) # NoError

\* In the scope the first selection that is not a field in its place (a
\* property field before the first vertex field, or a vertex field) is of
\* another class than the three selection classes.
StopsAtOtherSelection(scope) ==
    \E i \in DOMAIN scope.selections :
        /\ scope.selections[i].kind \notin SelectionKinds
        /\ \A j \in 1..(i - 1) :
              /\ scope.selections[j].kind = "FieldNode"
              /\ IsPropertyField(scope.selections[j])
                    => \A k \in 1..(j - 1) : IsPropertyField(scope.selections[k])

\* C18: check_query_is_valid_to_split runs the generic validation first; with
\* one or more errors it fails with GraphQLValidationError and the walk never
\* runs; the walk runs only after validation returned no errors, and the call
\* succeeds exactly when both passed.  A failure is a GraphQLValidationError,
\* except that a scope stopping at a selection which is neither a field, an
\* inline fragment nor a fragment spread gives an AssertionError.
C18_SplitValidationOrdering ==
    SplitWalk =>
        /\ pc = "validate" => last = Idle /\ outcome = Running
        /\ validation_errors > 0 =>
              /\ pc = "done"
              /\ outcome.exc = "GraphQLValidationError"
              /\ last = Idle
        /\ last # Idle => pc # "validate" /\ validation_errors = 0
        /\ SplitCallDone =>
              /\ outcome = NoError <=> (validation_errors = 0 /\ ~WalkRefuses)
              /\ outcome # NoError =>
                    /\ outcome.exc \in { "GraphQLValidationError", "AssertionError" }
                    /\ outcome.exc = "AssertionError" <=>
                          /\ last # Idle
                          /\ last.node.kind = "SelectionSetNode"
                          /\ StopsAtOtherSelection(last.node)

\* Validation returned no errors, and the walk failed on the scope of a vertex
\* field whose only selection is of another class.
C18_Witness ==
    /\ SplitCallDone
    /\ validation_errors = 0
    /\ outcome.exc = "AssertionError"
    /\ last.node = SelectionSetNode(<<OtherSelection>>)
    /\ Len(ast.definitions[1].selection_set.selections) = 2

-----------------------------------------------------------------------------
(* The in_query_type flag of the matcher *)

MatcherWalking == MatcherWalk /\ pc = "matcher"

ObjectTypeCalls ==
    { i \in DOMAIN stack : stack[i].node.kind = "ObjectTypeDefinitionNode" }

\* The walk has entered the object type named query_type and has not left
\* it: of the pending calls on object types the next one leaves that type.
InsideQueryType ==
    /\ ObjectTypeCalls # {}
    /\ LET next == stack[CHOOSE i \in ObjectTypeCalls : \A j \in ObjectTypeCalls : i <= j]
       IN next.op = "leave" /\ next.node.name.value = query_type

FlagFollowsQueryType ==
    MatcherWalk =>
        /\ pc = "visit_matcher" => ~in_query_type
        /\ pc = "matcher" => (in_query_type <=> InsideQueryType)
        /\ (pc = "done" /\ outcome = NoError) => ~in_query_type
        /\ (pc = "done" /\ outcome # NoError) =>
              /\ in_query_type
              /\ outcome.exc = "SchemaStructureError"
              /\ last.op = "enter"
              /\ last.node.kind = "FieldDefinitionNode"
              /\ \E i \in DOMAIN ast.definitions :
                    /\ ast.definitions[i].kind = "ObjectTypeDefinitionNode"
                    /\ ast.definitions[i].name.value = query_type
                    /\ \E j \in DOMAIN ast.definitions[i].fields :
                          ast.definitions[i].fields[j] = last.node

\* What one handler call does to the flag and to the walk.
FlagStep ==
    MatcherWalking =>
        LET call == Head(stack) IN
        /\ (call.node.kind = "ObjectTypeDefinitionNode"
               /\ call.node.name.value # query_type)
              => in_query_type' = in_query_type
        /\ (call.node.kind = "ObjectTypeDefinitionNode"
               /\ call.node.name.value = query_type)
              => in_query_type' = (call.op = "enter")
        /\ call.node.kind = "FieldDefinitionNode" =>
              /\ in_query_type' = in_query_type
              /\ ~in_query_type => outcome' \in { NoError, Running }
              /\ in_query_type =>
                    (outcome' \notin { NoError, Running }
                        <=> ~FieldNameMatchesType(call.node))

\* C19: in_query_type is false when the walk starts, true exactly between
\* entering and leaving the object type definition named query_type, and false
\* after a walk that raised nothing; entering or leaving another object type
\* leaves it as it is.  A field definition entered outside the query type
\* (of an interface, of an object type before or after it) raises nothing, a
\* field definition of the query type is compared with its type, and a
\* SchemaStructureError comes from a field of the query type.
C19_QueryRootFlag == [](FlagFollowsQueryType) /\ [][FlagStep]_vars

\* A walk that raised nothing over an object type Animal with the mismatching
\* field pet: Animal, followed by the query type with Animal: Animal.
C19_Witness ==
    /\ MatcherWalkDone
    /\ outcome = NoError
    /\ query_type = NameQuery
    /\ ~in_query_type
    /\ ast = DocumentNode(<<
          ObjectTypeDefinitionNode(NameAnimal,
              <<FieldDefinitionNode(NamePet, NamedTypeNode(NameAnimal))>>),
          ObjectTypeDefinitionNode(NameQuery,
              <<FieldDefinitionNode(NameAnimal, NamedTypeNode(NameAnimal))>>)>>)

-----------------------------------------------------------------------------
(* try_get_inline_fragment *)

RECURSIVE InlineFragmentsIn(_)

\* [selection for selection in selections if isinstance(selection, InlineFragmentNode)]
InlineFragmentsIn(selections) ==
    IF selections = <<>> THEN <<>>
    ELSE (IF Head(selections).kind = "InlineFragmentNode"
          THEN <<Head(selections)>> ELSE <<>>)
         \o InlineFragmentsIn(Tail(selections))

\* Variant: a list with two or more inline fragments is not refused.
try_get_inline_fragment_allows_many(selections) ==
    IF selections.type = "NoneType"
    THEN [result |-> NoError, value |-> None]
    ELSE LET inline_fragments_in_selection == InlineFragmentsIn(selections.value)
         IN IF Len(inline_fragments_in_selection) = 1
            THEN IF Len(selections.value) = 1
                 THEN [result |-> NoError, value |-> inline_fragments_in_selection[1]]
                 ELSE [result |-> Raise("GraphQLValidationError",
                                        "both InlineFragments and Fields"),
                       value |-> None]
            ELSE [result |-> NoError, value |-> None]

\* Variant: the only inline fragment is returned whatever else the list holds.
try_get_inline_fragment_any_length(selections) ==
    IF selections.type = "NoneType"
    THEN [result |-> NoError, value |-> None]
    ELSE LET inline_fragments_in_selection == InlineFragmentsIn(selections.value)
         IN IF Len(inline_fragments_in_selection) = 0
            THEN [result |-> NoError, value |-> None]
            ELSE IF Len(inline_fragments_in_selection) = 1
            THEN [result |-> NoError, value |-> inline_fragments_in_selection[1]]
            ELSE [result |-> Raise("GraphQLValidationError", "multiple InlineFragments"),
                  value |-> None]

\* try_get_inline_fragment(selections): what it raises, and what it returns
\* when it raises nothing.
try_get_inline_fragment(selections) ==
    IF selections.type = "NoneType"
    THEN [result |-> NoError, value |-> None]
    ELSE LET inline_fragments_in_selection == InlineFragmentsIn(selections.value)
         IN IF Len(inline_fragments_in_selection) = 0
            THEN [result |-> NoError, value |-> None]
            ELSE IF Len(inline_fragments_in_selection) = 1
            THEN IF Len(selections.value) = 1
                 THEN [result |-> NoError, value |-> inline_fragments_in_selection[1]]
                 ELSE [result |-> Raise("GraphQLValidationError",
                                        "both InlineFragments and Fields"),
                       value |-> None]
            ELSE [result |-> Raise("GraphQLValidationError", "multiple InlineFragments"),
                  value |-> None]

\* The selections a list is made of: a field, a fragment spread and two
\* inline fragments.
FragmentSelections ==
    { PropertyField,
      FragmentSpreadNode(<<>>),
      InlineFragmentNode(<<>>, SelectionSetNode(<<PropertyField>>)),
      InlineFragmentNode(<<DirectiveNode(FilterDirectiveName)>>, SelectionSetNode(<<>>)) }

SelectionLists ==
    { PyValue("NoneType", <<>>) }
    \cup { PyValue("list", l) :
             l \in CupOver(LAMBDA n : SeqsOfLen(FragmentSelections, n),
                           0, MaxFragmentSelections) }

CallTryGetInlineFragment ==
    /\ entry = "try_get_inline_fragment"
    /\ pc = "call"
    /\ outcome' = try_get_inline_fragment(args).result
    /\ returned' = try_get_inline_fragment(args).value
    /\ pc' = "done"
    /\ UNCHANGED call_frame

InitInlineFragment == InitCall("try_get_inline_fragment", SelectionLists)

NextInlineFragment == CallTryGetInlineFragment

SpecInlineFragment == InitInlineFragment /\ [][NextInlineFragment]_vars

InlineFragmentCallDone == entry = "try_get_inline_fragment" /\ pc = "done"

\* The positions of the inline fragments in the list given.
InlineFragmentPositions ==
    { i \in DOMAIN args.value : args.value[i].kind = "InlineFragmentNode" }

InlineFragmentResult ==
    InlineFragmentCallDone =>
        LET n == Cardinality(InlineFragmentPositions) IN
        /\ (args.type = "NoneType" \/ n = 0) =>
              outcome = NoError /\ returned = None
        /\ (args.type = "list" /\ n = 1 /\ Len(args.value) = 1) =>
              outcome = NoError /\ returned = args.value[1]
        /\ (args.type = "list" /\ (n >= 2 \/ (n = 1 /\ Len(args.value) >= 2))) =>
              outcome # NoError /\ outcome.exc = "GraphQLValidationError"
        /\ (outcome = NoError /\ returned # None) =>
              args.type = "list" /\ Len(args.value) = 1

\* C20: try_get_inline_fragment returns None for no list and for a list
\* without an inline fragment, returns the inline fragment of a list that
\* holds it and nothing else, and raises GraphQLValidationError for a list
\* with one inline fragment and another selection or with two or more inline
\* fragments; it returns a fragment only from a list of length one, and the
\* list stays as it was given.
C20_TryGetInlineFragment ==
    /\ [](InlineFragmentResult)
    /\ [][entry = "try_get_inline_fragment" => args' = args]_vars

\* A list of a field and one inline fragment was refused.
C20_Witness ==
    /\ InlineFragmentCallDone
    /\ args = PyValue("list",
                  << PropertyField,
                     InlineFragmentNode(<<>>, SelectionSetNode(<<PropertyField>>)) >>)
    /\ outcome.exc = "GraphQLValidationError"

-----------------------------------------------------------------------------
(* try_get_inline_fragment on the scopes that check_query_is_valid_to_split
   walks over *)

VertexField == FieldNode(<<>>, SelectionSetNode(<<PropertyField>>))

TypeCoercion == InlineFragmentNode(<<>>, SelectionSetNode(<<PropertyField>>))

ScopeSelections ==
    { PropertyField,
      VertexField,
      TypeCoercion,
      FieldNode(<<>>, SelectionSetNode(<<TypeCoercion>>)),
      FragmentSpreadNode(<<>>) }

ScopeDocuments ==
    { DocumentNode(<<OperationDefinitionNode(<<>>, SelectionSetNode(sels))>>) :
        sels \in CupOver(LAMBDA n : SeqsOfLen(ScopeSelections, n),
                         0, MaxFragmentSelections) }

\* try_get_inline_fragment is called, once, on the selections of the scope
\* that the walk has just checked.
CallTryGetInlineFragmentOnScope ==
    /\ entry = "check_query_is_valid_to_split"
    /\ NoCall
    /\ last.op = "enter"
    /\ last.node.kind = "SelectionSetNode"
    /\ args' = PyValue("list", last.node.selections)
    /\ returned' = try_get_inline_fragment(PyValue("list", last.node.selections))
    /\ UNCHANGED <<entry, pc, ast, stack, last, outcome, validation_errors, heap,
                   schema_vars>>

InitScopes ==
    /\ entry = "check_query_is_valid_to_split"
    /\ pc = "validate"
    /\ ast \in ScopeDocuments
    /\ stack = <<>>
    /\ last = Idle
    /\ NoCall
    /\ outcome = Running
    /\ validation_errors = 0
    /\ heap = <<>>
    /\ NoSchemaCheck

NextScopes == Validate \/ SplitVisit \/ CallTryGetInlineFragmentOnScope

SpecScopes == InitScopes /\ [][NextScopes]_vars

\* try_get_inline_fragment was called on a scope.
FragmentAsked == SplitWalk /\ ~NoCall

\* It was called on the scope checked last.
ScopeCompared ==
    /\ FragmentAsked
    /\ last.op = "enter"
    /\ last.node.kind = "SelectionSetNode"
    /\ last.node.selections = args.value

OnlyFieldsAndInlineFragments(selections) ==
    \A i \in DOMAIN selections :
        selections[i].kind \in { "FieldNode", "InlineFragmentNode" }

HoldsInlineFragment(selections) ==
    \E i \in DOMAIN selections : selections[i].kind = "InlineFragmentNode"

FragmentRefused ==
    returned.result # NoError /\ returned.result.exc = "GraphQLValidationError"

\* The scope check raised its error about an inline fragment beside other
\* selections.
RejectedForInlineFragment ==
    last.result = Raise("GraphQLValidationError", "inline fragment coexists")

\* The scope check raised its error about a property field after a vertex
\* field.
RejectedForOrder ==
    last.result = Raise("GraphQLValidationError", "property after vertex")

\* In a query the split validator accepted, try_get_inline_fragment raises on
\* no scope and returns a fragment exactly for the scopes of one inline
\* fragment, which the scope check passes by its early return.
AcceptedScopesGiveFragment ==
    (SplitWalkCompleted /\ FragmentAsked) =>
        /\ returned.result = NoError
        /\ returned.value # None
              <=> (Len(args.value) = 1 /\ args.value[1].kind = "InlineFragmentNode")

\* The claim as stated: on a list of fields and inline fragments,
\* try_get_inline_fragment raises exactly when the scope check rejects the
\* list for an inline fragment.
C21_AsStated ==
    /\ (ScopeCompared /\ OnlyFieldsAndInlineFragments(args.value)) =>
          (FragmentRefused <=> RejectedForInlineFragment)
    /\ AcceptedScopesGiveFragment

\* C21: on a list of fields and inline fragments, try_get_inline_fragment
\* raises GraphQLValidationError exactly when the list holds an inline
\* fragment and the scope check rejects the list, which it does for the
\* inline fragment or, when a property field after a vertex field comes
\* before the first inline fragment, for the order of the fields; on the
\* scopes of an accepted query it never raises, and it returns a fragment
\* exactly for the scopes accepted by the early return.
C21_InlineFragmentRulesAgree ==
    /\ (ScopeCompared /\ OnlyFieldsAndInlineFragments(args.value)) =>
          /\ FragmentRefused <=>
                (HoldsInlineFragment(args.value) /\ last.result # NoError)
          /\ RejectedForInlineFragment => FragmentRefused
          /\ FragmentRefused => (RejectedForInlineFragment \/ RejectedForOrder)
          /\ (FragmentRefused /\ RejectedForOrder) =>
                \E i, j, k \in DOMAIN args.value :
                    /\ i < j /\ j < k
                    /\ ~IsPropertyField(args.value[i])
                    /\ IsPropertyField(args.value[j])
                    /\ args.value[k].kind = "InlineFragmentNode"
                    /\ \A m \in 1..j : args.value[m].kind = "FieldNode"
    /\ AcceptedScopesGiveFragment

\* A vertex field, a property field and an inline fragment: the scope check
\* has refused the order of the fields, and try_get_inline_fragment the
\* inline fragment beside fields.
C21_Witness ==
    /\ ScopeCompared
    /\ args.value = <<VertexField, PropertyField, TypeCoercion>>
    /\ FragmentRefused
    /\ RejectedForOrder

====
